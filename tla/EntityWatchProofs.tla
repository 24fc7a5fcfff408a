--------------------------- MODULE EntityWatchProofs ---------------------------
(***************************************************************************)
(* What holds of EntityWatch for any entities and any number of writes:    *)
(*   - its types, with what the snapshot watcher knows of the store;       *)
(*   - as long as nothing failed, what pending_local suppresses, but for   *)
(*     what peers posted, is announced by whoever recorded it;             *)
(*   - no change is announced a third time.                                *)
(***************************************************************************)
EXTENDS EntityWatch, SequenceTheorems, TLAPS

(***************************************************************************)
(* Types                                                                   *)
(***************************************************************************)

\* The conjuncts of TypeOK, in groups.
WriteTypes == writes \in Seq(Write) /\ Len(writes) <= MaxWrites

StoreTypes ==
  /\ store \in [Key -> {0} \cup Issued]
  /\ rows \subseteq Issued /\ pushes \subseteq Issued /\ inserting \subseteq Issued

HandlerTypes ==
  /\ stage \in [Version -> {"none", "persisted", "recorded", "done"}]
  /\ \A v \in Version : stage[v] # "none" => v \in Issued

PendingTypes ==
  /\ pending \in [Key -> {NoEntry} \cup Issued]
  /\ \A k \in Key : pending[k] # NoEntry => KeyOf(pending[k]) = k

WatchTypes ==
  /\ seen \subseteq Issued /\ queue \subseteq Issued
  /\ phase \in {"idle", "read", "deliver"}
  /\ current \in [Key -> {0} \cup Issued]
  /\ previous \in [Key -> {0} \cup Issued]
  /\ snapQueue \subseteq Issued

CountTypes ==
  /\ announced \in [Version -> Nat]
  /\ failures \in 0 .. MaxUpsets
  /\ lives \in 0 .. MaxUpsets

\* An entity that was ever there is never unknown again.
Known ==
  \A k \in Key :
    /\ previous[k] # 0 => current[k] # 0
    /\ current[k] # 0 => store[k] # 0

TypeInv ==
  /\ WriteTypes /\ StoreTypes /\ HandlerTypes /\ PendingTypes
  /\ WatchTypes /\ CountTypes /\ Known

\* TypeInv is TypeOK and one conjunct more.
LEMMA TypeInvTypes == TypeInv => TypeOK
BY DEF TypeInv, TypeOK, WriteTypes, StoreTypes, HandlerTypes, PendingTypes, WatchTypes,
       CountTypes

\* Issuing a version changes none of those issued before.
LEMMA Issuing ==
  ASSUME WriteTypes, NEW w \in Write, writes' = Append(writes, w), Len(writes) < MaxWrites
  PROVE  /\ WriteTypes'
         /\ Len(writes) + 1 \in Version /\ Len(writes) + 1 \notin Issued
         /\ Issued' = Issued \cup {Len(writes) + 1}
         /\ \A v \in Issued : writes'[v] = writes[v]
         /\ writes'[Len(writes) + 1] = w
BY WatchAssumption DEF WriteTypes, Issued, Version

\* Versions that have been issued belong to an entity.
LEMMA IssuedKey ==
  ASSUME WriteTypes, NEW v \in Issued
  PROVE  v \in Version /\ KeyOf(v) \in Key /\ v # 0
<1>1. writes[v] \in Write
  BY DEF WriteTypes, Issued
<1>2. QED
  BY <1>1, WatchAssumption DEF WriteTypes, Issued, Version, KeyOf, Write

\* The initial state has the types.
LEMMA TypeInvInit == Init => TypeInv
<1> SUFFICES ASSUME Init PROVE TypeInv
  OBVIOUS
<1> USE WatchAssumption DEF Init
<1>1. WriteTypes
  BY DEF WriteTypes
<1>2. StoreTypes /\ HandlerTypes /\ PendingTypes
  BY DEF StoreTypes, HandlerTypes, PendingTypes
<1>3. WatchTypes /\ CountTypes /\ Known
  BY DEF WatchTypes, CountTypes, Known
<1>4. QED
  BY <1>1, <1>2, <1>3 DEF TypeInv

\* Every step keeps the types.
LEMMA TypeInvStep == TypeInv /\ [Next]_vars => TypeInv'
<1> SUFFICES ASSUME TypeInv, [Next]_vars PROVE TypeInv'
  OBVIOUS
<1> USE WatchAssumption
<1> USE DEF TypeInv
<1>1. ASSUME NEW k \in Key, NEW op \in {"upsert", "delete"}, Persist(k, op)
      PROVE  TypeInv'
  <2>1. /\ WriteTypes' /\ Len(writes) + 1 \in Version
        /\ Issued' = Issued \cup {Len(writes) + 1}
        /\ \A v \in Issued : writes'[v] = writes[v]
    <3> DEFINE w == [key |-> k, op |-> op, path |-> "local"]
    <3>1. w \in Write
      BY DEF Write
    <3>2. writes' = Append(writes, w) /\ Len(writes) < MaxWrites
      BY <1>1 DEF Persist
    <3>3. QED
      BY <3>1, <3>2, Issuing
  <2>2. StoreTypes'
    BY <1>1, <2>1 DEF Persist, peerVars, StoreTypes
  <2>3. HandlerTypes'
    BY <1>1, <2>1 DEF Persist, HandlerTypes
  <2>4. PendingTypes'
    BY <1>1, <2>1 DEF Persist, PendingTypes, KeyOf
  <2>5. WatchTypes' /\ CountTypes'
    BY <1>1, <2>1 DEF Persist, logVars, snapVars, bounds, WatchTypes, CountTypes
  <2>6. Known'
    BY <1>1 DEF Persist, snapVars, Known
  <2>7. QED
    BY <2>1, <2>2, <2>3, <2>4, <2>5, <2>6
<1>2. ASSUME NEW k \in Key, PersistQuietly(k)
      PROVE  TypeInv'
  <2>1. /\ WriteTypes' /\ Len(writes) + 1 \in Version
        /\ Issued' = Issued \cup {Len(writes) + 1}
        /\ \A v \in Issued : writes'[v] = writes[v]
    <3> DEFINE w == [key |-> k, op |-> "upsert", path |-> "quiet"]
    <3>1. w \in Write
      BY DEF Write
    <3>2. writes' = Append(writes, w) /\ Len(writes) < MaxWrites
      BY <1>2 DEF PersistQuietly
    <3>3. QED
      BY <3>1, <3>2, Issuing
  <2>2. StoreTypes'
    BY <1>2, <2>1 DEF PersistQuietly, peerVars, StoreTypes
  <2>3. HandlerTypes'
    BY <1>2, <2>1 DEF PersistQuietly, HandlerTypes
  <2>4. PendingTypes'
    BY <1>2, <2>1 DEF PersistQuietly, PendingTypes, KeyOf
  <2>5. WatchTypes' /\ CountTypes'
    BY <1>2, <2>1 DEF PersistQuietly, logVars, snapVars, bounds, WatchTypes, CountTypes
  <2>6. Known'
    BY <1>2 DEF PersistQuietly, snapVars, Known
  <2>7. QED
    BY <2>1, <2>2, <2>3, <2>4, <2>5, <2>6
<1>3. ASSUME NEW k \in Key, NEW op \in {"upsert", "delete"},
             NEW path \in {"logged", "silent"}, RemoteWrite(k, op, path)
      PROVE  TypeInv'
  <2>1. /\ WriteTypes' /\ Len(writes) + 1 \in Version
        /\ Issued' = Issued \cup {Len(writes) + 1}
        /\ \A v \in Issued : writes'[v] = writes[v]
    <3> DEFINE w == [key |-> k, op |-> op, path |-> path]
    <3>1. w \in Write
      BY DEF Write
    <3>2. writes' = Append(writes, w) /\ Len(writes) < MaxWrites
      BY <1>3 DEF RemoteWrite
    <3>3. QED
      BY <3>1, <3>2, Issuing
  <2>2. StoreTypes'
    BY <1>3, <2>1 DEF RemoteWrite, StoreTypes
  <2>3. HandlerTypes'
    BY <1>3, <2>1 DEF RemoteWrite, HandlerTypes
  <2>4. PendingTypes'
    BY <1>3, <2>1 DEF RemoteWrite, PendingTypes, KeyOf
  <2>5. WatchTypes' /\ CountTypes'
    BY <1>3, <2>1 DEF RemoteWrite, logVars, snapVars, bounds, WatchTypes, CountTypes
  <2>6. Known'
    BY <1>3 DEF RemoteWrite, snapVars, Known
  <2>7. QED
    BY <2>1, <2>2, <2>3, <2>4, <2>5, <2>6
<1>4. ASSUME NEW v \in Version, RecordLocal(v)
      PROVE  TypeInv'
  <2>0. writes' = writes /\ Issued' = Issued
    BY <1>4 DEF RecordLocal, Issued
  <2>1. WriteTypes' /\ StoreTypes' /\ WatchTypes' /\ CountTypes' /\ Known'
    BY <1>4
    DEF RecordLocal, peerVars, logVars, snapVars, bounds, Issued, WriteTypes, StoreTypes,
        WatchTypes, CountTypes, Known
  <2>2. HandlerTypes'
    BY <1>4, <2>0 DEF RecordLocal, HandlerTypes
  <2>3. PendingTypes'
    BY <1>4, <2>0 DEF RecordLocal, PendingTypes, HandlerTypes, KeyOf
  <2>4. QED
    BY <2>1, <2>2, <2>3
<1>5. ASSUME NEW v \in Version, NotifyLocal(v)
      PROVE  TypeInv'
  <2>0. writes' = writes /\ Issued' = Issued
    BY <1>5 DEF NotifyLocal, Issued
  <2>1. WriteTypes' /\ StoreTypes' /\ PendingTypes' /\ WatchTypes' /\ Known'
    BY <1>5
    DEF NotifyLocal, peerVars, logVars, snapVars, Issued, KeyOf, WriteTypes, StoreTypes,
        PendingTypes, WatchTypes, Known
  <2>2. HandlerTypes'
    BY <1>5, <2>0 DEF NotifyLocal, HandlerTypes
  <2>3. CountTypes'
    BY <1>5 DEF NotifyLocal, bounds, Announce, CountTypes
  <2>4. QED
    BY <2>1, <2>2, <2>3
<1>6. ASSUME NEW v \in Version, HandlerDies(v)
      PROVE  TypeInv'
  <2>0. writes' = writes /\ Issued' = Issued
    BY <1>6 DEF HandlerDies, Issued
  <2>1. WriteTypes' /\ StoreTypes' /\ PendingTypes' /\ WatchTypes' /\ Known'
    BY <1>6
    DEF HandlerDies, peerVars, logVars, snapVars, Issued, KeyOf, WriteTypes, StoreTypes,
        PendingTypes, WatchTypes, Known
  <2>2. HandlerTypes'
    BY <1>6, <2>0 DEF HandlerDies, HandlerTypes
  <2>3. CountTypes'
    BY <1>6 DEF HandlerDies, Fail, CountTypes
  <2>4. QED
    BY <2>1, <2>2, <2>3
<1>7. ASSUME NEW v \in Version, RowArrives(v)
      PROVE  TypeInv'
  <2>0. writes' = writes /\ Issued' = Issued
    BY <1>7 DEF RowArrives, Issued
  <2>1. WriteTypes' /\ HandlerTypes' /\ PendingTypes' /\ WatchTypes' /\ CountTypes'
    BY <1>7
    DEF RowArrives, logVars, snapVars, bounds, Issued, KeyOf, WriteTypes, HandlerTypes,
        PendingTypes, WatchTypes, CountTypes
  <2>2. StoreTypes'
    BY <1>7, <2>0 DEF RowArrives, StoreTypes
  <2>3. Known'
    BY <1>7 DEF RowArrives, snapVars, Known
  <2>4. QED
    BY <2>1, <2>2, <2>3
<1>8. ASSUME NEW v \in Version, PushArrives(v)
      PROVE  TypeInv'
  <2>0. writes' = writes /\ Issued' = Issued
    BY <1>8 DEF PushArrives, Issued
  <2>1. WriteTypes' /\ HandlerTypes' /\ WatchTypes' /\ CountTypes' /\ Known'
    BY <1>8
    DEF PushArrives, logVars, snapVars, bounds, Issued, WriteTypes, HandlerTypes,
        WatchTypes, CountTypes, Known
  <2>2. StoreTypes'
    BY <1>8, <2>0 DEF PushArrives, StoreTypes
  <2>3. PendingTypes'
    BY <1>8, <2>0 DEF PushArrives, PendingTypes, StoreTypes, KeyOf
  <2>4. QED
    BY <2>1, <2>2, <2>3
<1>9. ASSUME NEW v \in Version, PushInserts(v)
      PROVE  TypeInv'
  <2>0. writes' = writes /\ Issued' = Issued
    BY <1>9 DEF PushInserts, Issued
  <2>1. WriteTypes' /\ HandlerTypes' /\ PendingTypes' /\ WatchTypes' /\ CountTypes'
    BY <1>9
    DEF PushInserts, logVars, snapVars, bounds, Issued, KeyOf, WriteTypes, HandlerTypes,
        PendingTypes, WatchTypes, CountTypes
  <2>2. StoreTypes'
    BY <1>9, <2>0 DEF PushInserts, StoreTypes
  <2>3. Known'
    BY <1>9, IssuedKey DEF PushInserts, snapVars, Known, StoreTypes
  <2>4. QED
    BY <2>1, <2>2, <2>3
<1>10. ASSUME NEW v \in Version, LogEvent(v)
      PROVE  TypeInv'
  <2>0. writes' = writes /\ Issued' = Issued
    BY <1>10 DEF LogEvent, Issued
  <2>1. WriteTypes' /\ StoreTypes' /\ HandlerTypes' /\ CountTypes' /\ Known'
    BY <1>10
    DEF LogEvent, peerVars, snapVars, bounds, Issued, WriteTypes, StoreTypes, HandlerTypes,
        CountTypes, Known
  <2>2. PendingTypes'
    BY <1>10, <2>0 DEF LogEvent, PendingTypes, KeyOf
  <2>3. WatchTypes'
    BY <1>10, <2>0 DEF LogEvent, snapVars, WatchTypes
  <2>4. QED
    BY <2>1, <2>2, <2>3
<1>11. CASE LogServe
  <2>0. writes' = writes /\ Issued' = Issued
    BY <1>11 DEF LogServe, Issued
  <2>1. WriteTypes' /\ StoreTypes' /\ HandlerTypes' /\ PendingTypes' /\ Known'
    BY <1>11
    DEF LogServe, peerVars, snapVars, Issued, KeyOf, WriteTypes, StoreTypes, HandlerTypes,
        PendingTypes, Known
  <2>2. WatchTypes'
    BY <1>11, <2>0 DEF LogServe, snapVars, WatchTypes
  <2>3. CountTypes'
    BY <1>11 DEF LogServe, bounds, Announce, CountTypes
  <2>4. QED
    BY <2>1, <2>2, <2>3
<1>12. CASE LogServeFails
  <2>0. writes' = writes /\ Issued' = Issued
    BY <1>12 DEF LogServeFails, Issued
  <2>1. WriteTypes' /\ StoreTypes' /\ HandlerTypes' /\ PendingTypes' /\ Known'
    BY <1>12
    DEF LogServeFails, peerVars, snapVars, Issued, KeyOf, WriteTypes, StoreTypes,
        HandlerTypes, PendingTypes, Known
  <2>2. WatchTypes'
    BY <1>12, <2>0 DEF LogServeFails, snapVars, WatchTypes
  <2>3. CountTypes'
    BY <1>12 DEF LogServeFails, Announce, Fail, CountTypes
  <2>4. QED
    BY <2>1, <2>2, <2>3
<1>13. CASE SnapRead
  <2>0. writes' = writes /\ Issued' = Issued
    BY <1>13 DEF SnapRead, Issued
  <2>1. WriteTypes' /\ StoreTypes' /\ HandlerTypes' /\ PendingTypes' /\ CountTypes'
    BY <1>13
    DEF SnapRead, peerVars, bounds, Issued, KeyOf, WriteTypes, StoreTypes, HandlerTypes,
        PendingTypes, CountTypes
  <2>2. WatchTypes'
    BY <1>13, <2>0 DEF SnapRead, logVars, WatchTypes, StoreTypes
  <2>3. Known'
    BY <1>13 DEF SnapRead, Known
  <2>4. QED
    BY <2>1, <2>2, <2>3
<1>14. CASE SnapCompare
  <2>0. writes' = writes /\ Issued' = Issued
    BY <1>14 DEF SnapCompare, Issued
  <2>1. WriteTypes' /\ StoreTypes' /\ HandlerTypes' /\ CountTypes'
    BY <1>14
    DEF SnapCompare, peerVars, bounds, Issued, WriteTypes, StoreTypes, HandlerTypes,
        CountTypes
  <2>2. PendingTypes'
    BY <1>14, <2>0 DEF SnapCompare, PendingTypes, KeyOf
  <2>3. WatchTypes'
    <3>1. \A k \in Changed : k \in Key /\ current[k] \in Issued
      BY DEF Changed, WatchTypes, Known
    <3>2. snapQueue' \subseteq Issued
      BY <1>14, <3>1 DEF SnapCompare
    <3>3. QED
      BY <1>14, <2>0, <3>2 DEF SnapCompare, WatchTypes, logVars
  <2>4. Known'
    BY <1>14 DEF SnapCompare, Known
  <2>5. QED
    BY <2>1, <2>2, <2>3, <2>4
<1>15. CASE SnapServe
  <2>0. writes' = writes /\ Issued' = Issued
    BY <1>15 DEF SnapServe, Issued
  <2>1. WriteTypes' /\ StoreTypes' /\ HandlerTypes' /\ PendingTypes' /\ Known'
    BY <1>15
    DEF SnapServe, peerVars, Issued, KeyOf, WriteTypes, StoreTypes, HandlerTypes,
        PendingTypes, Known
  <2>2. WatchTypes'
    BY <1>15, <2>0 DEF SnapServe, logVars, WatchTypes
  <2>3. CountTypes'
    BY <1>15 DEF SnapServe, bounds, Announce, CountTypes
  <2>4. QED
    BY <2>1, <2>2, <2>3
<1>16. CASE SnapServeFails
  <2>0. writes' = writes /\ Issued' = Issued
    BY <1>16 DEF SnapServeFails, Issued
  <2>1. WriteTypes' /\ StoreTypes' /\ HandlerTypes' /\ PendingTypes' /\ Known'
    BY <1>16
    DEF SnapServeFails, peerVars, Issued, KeyOf, WriteTypes, StoreTypes, HandlerTypes,
        PendingTypes, Known
  <2>2. WatchTypes'
    BY <1>16, <2>0 DEF SnapServeFails, logVars, WatchTypes
  <2>3. CountTypes'
    BY <1>16 DEF SnapServeFails, Announce, Fail, CountTypes
  <2>4. QED
    BY <2>1, <2>2, <2>3
<1>17. CASE Restart
  <2>0. writes' = writes /\ Issued' = Issued
    BY <1>17 DEF Restart, Issued
  <2>1. WriteTypes'
    BY <1>17 DEF Restart, WriteTypes
  <2>2. StoreTypes'
    BY <1>17, <2>0 DEF Restart, peerVars, StoreTypes
  <2>3. HandlerTypes'
    BY <1>17, <2>0 DEF Restart, HandlerTypes
  <2>4. PendingTypes'
    BY <1>17 DEF Restart, PendingTypes
  <2>5. WatchTypes'
    BY <1>17 DEF Restart, WatchTypes
  <2>6. CountTypes'
    BY <1>17 DEF Restart, CountTypes
  <2>7. Known'
    BY <1>17 DEF Restart, Known
  <2>8. QED
    BY <2>1, <2>2, <2>3, <2>4, <2>5, <2>6, <2>7
<1>18. CASE UNCHANGED vars
  BY <1>18
  DEF vars, peerVars, logVars, snapVars, bounds, WriteTypes, StoreTypes, HandlerTypes,
      PendingTypes, WatchTypes, CountTypes, Known, Issued, KeyOf
<1>19. QED
  BY <1>1, <1>2, <1>3, <1>4, <1>5, <1>6, <1>7, <1>8, <1>9, <1>10, <1>11, <1>12, <1>13,
     <1>14, <1>15, <1>16, <1>17, <1>18
  DEF Next

\* The types hold in every state, for any entities and bounds.
THEOREM TypeCorrect == Spec => []TypeOK
BY TypeInvInit, TypeInvStep, TypeInvTypes, PTL DEF Spec

(***************************************************************************)
(* Suppression                                                             *)
(***************************************************************************)

PushesSilent == \A v \in pushes : writes[v].path = "silent"

BackedInv == TypeInv /\ PushesSilent /\ PendingBacked

\* Nothing is remembered at first.
LEMMA BackedInit == Init => BackedInv
BY TypeInvInit DEF Init, BackedInv, PushesSilent, PendingBacked

\* A new write changes nothing that is remembered.
LEMMA BackedIssue ==
  ASSUME BackedInv, NEW w \in Write, writes' = Append(writes, w), Len(writes) < MaxWrites,
         \/ pushes' = pushes
         \/ pushes' = pushes \cup {Len(writes) + 1} /\ w.path = "silent",
         UNCHANGED <<pending, announced, queue, failures>>,
         \A v \in Issued : stage'[v] = stage[v]
  PROVE  PushesSilent' /\ PendingBacked'
<1>1. /\ \A v \in Issued : writes'[v] = writes[v]
      /\ writes'[Len(writes) + 1] = w
  BY Issuing DEF BackedInv, TypeInv
<1>2. \A v \in pushes : v \in Issued
  BY DEF BackedInv, TypeInv, StoreTypes
<1>3. \A k \in Key : pending[k] = NoEntry \/ pending[k] \in Issued
  BY DEF BackedInv, TypeInv, PendingTypes
<1>4. PushesSilent'
  BY <1>1, <1>2 DEF BackedInv, PushesSilent
<1>5. PendingBacked'
  BY <1>1, <1>3 DEF BackedInv, PendingBacked
<1>6. QED
  BY <1>4, <1>5

\* Who puts a version into pending_local is about to announce it, and what was
\* announced stays so until pending_local itself is lost.
LEMMA BackedStep == BackedInv /\ [Next]_vars => BackedInv'
<1> SUFFICES ASSUME BackedInv, [Next]_vars PROVE BackedInv'
  OBVIOUS
<1>0. TypeInv /\ TypeInv'
  BY TypeInvStep DEF BackedInv
<1> SUFFICES PushesSilent' /\ PendingBacked'
  BY <1>0 DEF BackedInv
<1>a. Fail => failures' # 0
  BY <1>0 DEF Fail, TypeInv, CountTypes
<1>b. \A k \in Key : pending[k] # NoEntry => pending[k] \in Version
  BY <1>0, IssuedKey DEF TypeInv, PendingTypes
<1>c. \A v \in Version : announced[v] \in Nat
  BY <1>0 DEF TypeInv, CountTypes
<1>d. Len(writes) + 1 \notin Issued
  BY <1>0 DEF TypeInv, WriteTypes, Issued
<1>e. PushesSilent /\ PendingBacked
  BY DEF BackedInv
<1>1. ASSUME NEW k \in Key, NEW op \in {"upsert", "delete"}, Persist(k, op)
      PROVE  PushesSilent' /\ PendingBacked'
  <2>1. [key |-> k, op |-> op, path |-> "local"] \in Write
    BY DEF Write
  <2>2. Len(writes) < MaxWrites
    BY <1>0, <1>1, WatchAssumption DEF Persist, TypeInv, WriteTypes
  <2>3. \A v \in Issued : stage'[v] = stage[v]
    BY <1>0, <1>1, <1>d DEF Persist, TypeInv, HandlerTypes
  <2>4. QED
    BY <1>1, <2>1, <2>2, <2>3, BackedIssue DEF Persist, peerVars, logVars, bounds
<1>2. ASSUME NEW k \in Key, PersistQuietly(k)
      PROVE  PushesSilent' /\ PendingBacked'
  <2>1. [key |-> k, op |-> "upsert", path |-> "quiet"] \in Write
    BY DEF Write
  <2>2. Len(writes) < MaxWrites
    BY <1>0, <1>2, WatchAssumption DEF PersistQuietly, TypeInv, WriteTypes
  <2>3. \A v \in Issued : stage'[v] = stage[v]
    BY <1>0, <1>2, <1>d DEF PersistQuietly, TypeInv, HandlerTypes
  <2>4. QED
    BY <1>2, <2>1, <2>2, <2>3, BackedIssue DEF PersistQuietly, peerVars, logVars, bounds
<1>3. ASSUME NEW k \in Key, NEW op \in {"upsert", "delete"},
             NEW path \in {"logged", "silent"}, RemoteWrite(k, op, path)
      PROVE  PushesSilent' /\ PendingBacked'
  <2> DEFINE w == [key |-> k, op |-> op, path |-> path]
  <2>1. w \in Write /\ w.path = path
    BY DEF Write
  <2>2. Len(writes) < MaxWrites /\ writes' = Append(writes, w)
    BY <1>0, <1>3, WatchAssumption DEF RemoteWrite, TypeInv, WriteTypes
  <2>3. \/ pushes' = pushes
        \/ pushes' = pushes \cup {Len(writes) + 1} /\ path = "silent"
    BY <1>3 DEF RemoteWrite
  <2>4. UNCHANGED <<pending, announced, queue, failures, stage>>
    BY <1>3 DEF RemoteWrite, logVars, bounds
  <2> HIDE DEF w
  <2>5. QED
    BY <2>1, <2>2, <2>3, <2>4, BackedIssue
<1> USE DEF PushesSilent, PendingBacked
<1>4. ASSUME NEW v \in Version, RecordLocal(v)
      PROVE  PushesSilent' /\ PendingBacked'
  BY <1>0, <1>4, <1>e DEF RecordLocal, peerVars, logVars, bounds, TypeInv, HandlerTypes, PendingTypes
<1>5. ASSUME NEW v \in Version, NotifyLocal(v)
      PROVE  PushesSilent' /\ PendingBacked'
  BY <1>5, <1>b, <1>c, <1>e DEF NotifyLocal, peerVars, logVars, bounds, Announce
<1>6. ASSUME NEW v \in Version, HandlerDies(v)
      PROVE  PushesSilent' /\ PendingBacked'
  BY <1>6, <1>a, <1>e DEF HandlerDies, peerVars
<1>7. ASSUME NEW v \in Version, RowArrives(v)
      PROVE  PushesSilent' /\ PendingBacked'
  BY <1>7, <1>e DEF RowArrives, logVars, bounds
<1>8. ASSUME NEW v \in Version, PushArrives(v)
      PROVE  PushesSilent' /\ PendingBacked'
  BY <1>0, <1>8, <1>e DEF PushArrives, logVars, bounds, TypeInv, PendingTypes
<1>9. ASSUME NEW v \in Version, PushInserts(v)
      PROVE  PushesSilent' /\ PendingBacked'
  BY <1>9, <1>e DEF PushInserts, logVars, bounds
<1>10. ASSUME NEW v \in Version, LogEvent(v)
      PROVE  PushesSilent' /\ PendingBacked'
  BY <1>0, <1>10, <1>e DEF LogEvent, peerVars, bounds, TypeInv, PendingTypes
<1>11. CASE LogServe
  BY <1>11, <1>b, <1>c, <1>e DEF LogServe, peerVars, bounds, Announce
<1>12. CASE LogServeFails
  BY <1>12, <1>a, <1>e DEF LogServeFails, peerVars
<1>13. CASE SnapRead
  BY <1>13, <1>e DEF SnapRead, peerVars, logVars, bounds
<1>14. CASE SnapCompare
  BY <1>14, <1>e DEF SnapCompare, peerVars, logVars, bounds
<1>15. CASE SnapServe
  BY <1>15, <1>b, <1>c, <1>e DEF SnapServe, peerVars, logVars, bounds, Announce
<1>16. CASE SnapServeFails
  BY <1>16, <1>a, <1>e DEF SnapServeFails, peerVars
<1>17. CASE Restart
  BY <1>17, <1>e DEF Restart, peerVars
<1>18. CASE UNCHANGED vars
  BY <1>18, <1>e DEF vars, peerVars, logVars, bounds
<1>19. QED
  BY <1>1, <1>2, <1>3, <1>4, <1>5, <1>6, <1>7, <1>8, <1>9, <1>10, <1>11, <1>12, <1>13,
     <1>14, <1>15, <1>16, <1>17, <1>18
  DEF Next

\* As long as nothing failed, whatever pending_local makes a watcher pass over
\* was or will be announced by whoever recorded it, except what peers posted.
THEOREM SuppressionBacked == Spec => []PendingBacked
<1>1. BackedInv => PendingBacked
  BY DEF BackedInv
<1>2. QED
  BY <1>1, BackedInit, BackedStep, PTL DEF Spec

(***************************************************************************)
(* Announced at most twice                                                 *)
(***************************************************************************)

\* Who announces a change itself - its handler or the log watcher - has yet to.
HandDue(v) ==
  \/ writes[v].path = "local" /\ stage[v] \in {"persisted", "recorded"}
  \/ Logged(v) /\ (v \notin seen \/ v \in queue)

\* The snapshot watcher has yet to find a change, or has and queued it.
SnapDue(v) ==
  LET k == KeyOf(v) IN
  \/ v \in rows
  \/ store[k] = v /\ current[k] # v
  \/ phase = "read" /\ current[k] = v /\ previous[k] # v
  \/ v \in snapQueue

Limit(v) == IF writes[v].path \in {"local", "logged"} THEN 2 ELSE 1

\* What was announced and what is due stays within the limit.
Budget(v) ==
  announced[v] + (IF HandDue(v) THEN 1 ELSE 0) + (IF SnapDue(v) THEN 1 ELSE 0) <= Limit(v)

\* Where the versions are found that are due.
HandPlaces ==
  /\ \A v \in Version : stage[v] \in {"persisted", "recorded"} => writes[v].path = "local"
  /\ \A v \in queue : Logged(v) /\ v \in seen
  /\ \A v \in Version : v \notin Issued => announced[v] = 0

SnapPlaces ==
  /\ \A k \in Key :
       /\ store[k] # 0 => KeyOf(store[k]) = k /\ store[k] \notin rows
       /\ current[k] # 0 => KeyOf(current[k]) = k /\ current[k] \notin rows
  /\ phase # "read" => current = previous
  /\ phase # "deliver" => snapQueue = {}
  /\ \A v \in snapQueue : current[KeyOf(v)] = v

TwiceInv == TypeInv /\ HandPlaces /\ SnapPlaces /\ \A v \in Issued : Budget(v)

\* A change that was not announced just now, and is no more due than before.
LEMMA BudgetKept ==
  ASSUME NEW v \in Version, TypeInv, Budget(v),
         writes'[v] = writes[v], announced'[v] <= announced[v], announced'[v] \in Nat,
         HandDue(v)' => HandDue(v), SnapDue(v)' => SnapDue(v)
  PROVE  Budget(v)'
BY DEF Budget, Limit, TypeInv, CountTypes

\* A change announced by the one it was due from.
LEMMA BudgetSpent ==
  ASSUME NEW v \in Version, TypeInv, Budget(v),
         writes'[v] = writes[v], announced'[v] = announced[v] + 1,
         \/ HandDue(v) /\ ~ HandDue(v)' /\ (SnapDue(v)' => SnapDue(v))
         \/ SnapDue(v) /\ ~ SnapDue(v)' /\ (HandDue(v)' => HandDue(v))
  PROVE  Budget(v)'
BY DEF Budget, Limit, TypeInv, CountTypes

\* A change nobody has announced, and that only some can hear of.
LEMMA BudgetNew ==
  ASSUME NEW v \in Version, announced'[v] = 0,
         HandDue(v)' => writes'[v].path \in {"local", "logged"}
  PROVE  Budget(v)'
BY DEF Budget, Limit

\* Nothing has been issued at first.
LEMMA TwiceInit == Init => TwiceInv
<1> SUFFICES ASSUME Init PROVE TwiceInv
  OBVIOUS
<1>1. HandPlaces /\ SnapPlaces
  BY DEF Init, HandPlaces, SnapPlaces
<1>2. Issued = {}
  BY DEF Init, Issued
<1>3. QED
  BY <1>1, <1>2, TypeInvInit DEF TwiceInv

\* Every announcement is one that was due, and no change becomes due again.
LEMMA TwiceStep == TwiceInv /\ [Next]_vars => TwiceInv'
<1> SUFFICES ASSUME TwiceInv, [Next]_vars PROVE TwiceInv'
  OBVIOUS
<1> USE WatchAssumption
<1>0. TypeInv /\ TypeInv'
  BY TypeInvStep DEF TwiceInv
<1> SUFFICES HandPlaces' /\ SnapPlaces' /\ \A v \in Issued' : Budget(v)'
  BY <1>0 DEF TwiceInv
<1>i. \A v \in Issued : v \in Version /\ KeyOf(v) \in Key /\ v # 0
  BY <1>0, IssuedKey DEF TypeInv
<1>v. writes' = writes => Issued' = Issued /\ \A v \in Version : KeyOf(v)' = KeyOf(v)
  BY DEF Issued, KeyOf
<1>h. \A v \in Version : v \notin Issued => announced[v] = 0
  BY DEF TwiceInv, HandPlaces
<1>c. \A v \in Version : announced[v] \in Nat /\ announced'[v] \in Nat
  BY <1>0 DEF TypeInv, CountTypes
<1>1. ASSUME NEW k \in Key, NEW op \in {"upsert", "delete"}, Persist(k, op)
      PROVE  HandPlaces' /\ SnapPlaces' /\ \A v \in Issued' : Budget(v)'
  <2>0. PICK n \in Nat : n = Len(writes) + 1
    BY <1>0
  <2>1. /\ n \in Version /\ n \notin Issued /\ Issued' = Issued \cup {n}
        /\ \A v \in Issued : writes'[v] = writes[v]
        /\ writes'[n].key = k
        /\ writes'[n].path = "local"
    <3> DEFINE w == [key |-> k, op |-> op, path |-> "local"]
    <3>1. w \in Write
      BY DEF Write
    <3>2. writes' = Append(writes, w) /\ Len(writes) < MaxWrites
      BY <1>1 DEF Persist
    <3>3. w.key = k /\ w.path = "local"
      OBVIOUS
    <3> HIDE DEF w
    <3>4. QED
      BY <1>0, <2>0, <3>1, <3>2, <3>3, Issuing DEF TypeInv
  <2>2. /\ announced' = announced /\ seen' = seen /\ queue' = queue
        /\ phase' = phase /\ current' = current /\ previous' = previous
        /\ snapQueue' = snapQueue
        /\ \A v \in Issued : stage'[v] = stage[v] /\ (v \in rows' <=> v \in rows)
    BY <1>1, <2>0, <2>1 DEF Persist, logVars, snapVars, peerVars
  <2>3. store' = [store EXCEPT ![k] = n] /\ rows' = rows
    BY <1>1, <2>0 DEF Persist, peerVars
  <2>4. \A v \in Version \ Issued : v # n => stage[v] = "none" /\ stage'[v] = stage[v]
    BY <1>0, <2>1 DEF TypeInv, HandlerTypes
  <2>5. HandPlaces'
    <3>1. \A v \in Version : stage'[v] \in {"persisted", "recorded"} => writes'[v].path = "local"
      <4>1. \A v \in Issued : stage'[v] \in {"persisted", "recorded"} => writes'[v].path = "local"
        BY <1>i, <2>1, <2>2 DEF HandPlaces, TwiceInv
      <4>2. writes'[n].path = "local"
        BY <2>1
      <4>3. QED
        BY <2>4, <4>1, <4>2
    <3>2. \A v \in queue' : Logged(v)' /\ v \in seen'
      BY <2>1, <2>2 DEF HandPlaces, TwiceInv, TypeInv, WatchTypes, Logged
    <3>3. \A v \in Version : v \notin Issued' => announced'[v] = 0
      BY <1>h, <2>1, <2>2
    <3>4. QED
      BY <3>1, <3>2, <3>3 DEF HandPlaces
  <2>6. SnapPlaces'
    BY <2>1, <2>2, <2>3 DEF SnapPlaces, TwiceInv, TypeInv, StoreTypes, WatchTypes, KeyOf
  <2>7. ASSUME NEW v \in Issued PROVE Budget(v)'
    <3>1. HandDue(v)' => HandDue(v)
      BY <2>1, <2>2 DEF HandDue, Logged
    <3>2. SnapDue(v)' => SnapDue(v)
      BY <2>1, <2>2, <2>3 DEF SnapDue, KeyOf
    <3>3. v \in Version /\ Budget(v) /\ announced'[v] = announced[v] /\ announced[v] \in Nat
      BY <1>i, <1>c, <2>2 DEF TwiceInv
    <3>4. writes'[v] = writes[v]
      BY <2>1
    <3>5. QED
      BY <1>0, <3>1, <3>2, <3>3, <3>4, BudgetKept
  <2>8. Budget(n)'
    <3>1. QED
      BY <1>h, <2>1, <2>2, BudgetNew
  <2>9. QED
    BY <2>1, <2>5, <2>6, <2>7, <2>8
<1>2. ASSUME NEW k \in Key, PersistQuietly(k)
      PROVE  HandPlaces' /\ SnapPlaces' /\ \A v \in Issued' : Budget(v)'
  <2>0. PICK n \in Nat : n = Len(writes) + 1
    BY <1>0
  <2>1. /\ n \in Version /\ n \notin Issued /\ Issued' = Issued \cup {n}
        /\ \A v \in Issued : writes'[v] = writes[v]
        /\ writes'[n].key = k
        /\ writes'[n].path = "quiet"
    <3> DEFINE w == [key |-> k, op |-> "upsert", path |-> "quiet"]
    <3>1. w \in Write
      BY DEF Write
    <3>2. writes' = Append(writes, w) /\ Len(writes) < MaxWrites
      BY <1>2 DEF PersistQuietly
    <3>3. w.key = k /\ w.path = "quiet"
      OBVIOUS
    <3> HIDE DEF w
    <3>4. QED
      BY <1>0, <2>0, <3>1, <3>2, <3>3, Issuing DEF TypeInv
  <2>2. /\ announced' = announced /\ seen' = seen /\ queue' = queue
        /\ phase' = phase /\ current' = current /\ previous' = previous
        /\ snapQueue' = snapQueue
        /\ \A v \in Issued : stage'[v] = stage[v] /\ (v \in rows' <=> v \in rows)
    BY <1>2, <2>0, <2>1 DEF PersistQuietly, logVars, snapVars, peerVars
  <2>3. store' = [store EXCEPT ![k] = n] /\ rows' = rows
    BY <1>2, <2>0 DEF PersistQuietly, peerVars
  <2>4. \A v \in Version \ Issued : v # n => stage[v] = "none" /\ stage'[v] = stage[v]
    BY <1>0, <2>1 DEF TypeInv, HandlerTypes
  <2>5. HandPlaces'
    <3>1. \A v \in Version : stage'[v] \in {"persisted", "recorded"} => writes'[v].path = "local"
      <4>1. \A v \in Issued : stage'[v] \in {"persisted", "recorded"} => writes'[v].path = "local"
        BY <1>i, <2>1, <2>2 DEF HandPlaces, TwiceInv
      <4>2. stage'[n] = "done"
        BY <1>0, <1>2, <2>0 DEF PersistQuietly, TypeInv, HandlerTypes
      <4>3. QED
        BY <2>4, <4>1, <4>2
    <3>2. \A v \in queue' : Logged(v)' /\ v \in seen'
      BY <2>1, <2>2 DEF HandPlaces, TwiceInv, TypeInv, WatchTypes, Logged
    <3>3. \A v \in Version : v \notin Issued' => announced'[v] = 0
      BY <1>h, <2>1, <2>2
    <3>4. QED
      BY <3>1, <3>2, <3>3 DEF HandPlaces
  <2>6. SnapPlaces'
    BY <2>1, <2>2, <2>3 DEF SnapPlaces, TwiceInv, TypeInv, StoreTypes, WatchTypes, KeyOf
  <2>7. ASSUME NEW v \in Issued PROVE Budget(v)'
    <3>1. HandDue(v)' => HandDue(v)
      BY <2>1, <2>2 DEF HandDue, Logged
    <3>2. SnapDue(v)' => SnapDue(v)
      BY <2>1, <2>2, <2>3 DEF SnapDue, KeyOf
    <3>3. v \in Version /\ Budget(v) /\ announced'[v] = announced[v] /\ announced[v] \in Nat
      BY <1>i, <1>c, <2>2 DEF TwiceInv
    <3>4. writes'[v] = writes[v]
      BY <2>1
    <3>5. QED
      BY <1>0, <3>1, <3>2, <3>3, <3>4, BudgetKept
  <2>8. Budget(n)'
    <3>1. HandDue(n)' => writes'[n].path \in {"local", "logged"}
      BY DEF HandDue, Logged
    <3>2. QED
      BY <1>h, <2>1, <2>2, <3>1, BudgetNew
  <2>9. QED
    BY <2>1, <2>5, <2>6, <2>7, <2>8
<1>3. ASSUME NEW k \in Key, NEW op \in {"upsert", "delete"},
             NEW path \in {"logged", "silent"}, RemoteWrite(k, op, path)
      PROVE  HandPlaces' /\ SnapPlaces' /\ \A v \in Issued' : Budget(v)'
  <2>0. PICK n \in Nat : n = Len(writes) + 1
    BY <1>0
  <2>1. /\ n \in Version /\ n \notin Issued /\ Issued' = Issued \cup {n}
        /\ \A v \in Issued : writes'[v] = writes[v]
        /\ writes'[n].key = k
        /\ writes'[n].path = path
    <3> DEFINE w == [key |-> k, op |-> op, path |-> path]
    <3>1. w \in Write
      BY DEF Write
    <3>2. writes' = Append(writes, w) /\ Len(writes) < MaxWrites
      BY <1>3 DEF RemoteWrite
    <3>3. w.key = k /\ w.path = path
      OBVIOUS
    <3> HIDE DEF w
    <3>4. QED
      BY <1>0, <2>0, <3>1, <3>2, <3>3, Issuing DEF TypeInv
  <2>2. /\ announced' = announced /\ seen' = seen /\ queue' = queue
        /\ phase' = phase /\ current' = current /\ previous' = previous
        /\ snapQueue' = snapQueue
        /\ \A v \in Issued : stage'[v] = stage[v] /\ (v \in rows' <=> v \in rows)
    BY <1>3, <2>0, <2>1 DEF RemoteWrite, logVars, snapVars
  <2>3. store' = store /\ rows' = rows \cup {n}
    BY <1>3, <2>0 DEF RemoteWrite
  <2>4. \A v \in Version \ Issued : v # n => stage[v] = "none" /\ stage'[v] = stage[v]
    BY <1>0, <2>1 DEF TypeInv, HandlerTypes
  <2>5. HandPlaces'
    <3>1. \A v \in Version : stage'[v] \in {"persisted", "recorded"} => writes'[v].path = "local"
      <4>1. \A v \in Issued : stage'[v] \in {"persisted", "recorded"} => writes'[v].path = "local"
        BY <1>i, <2>1, <2>2 DEF HandPlaces, TwiceInv
      <4>2. stage'[n] = "none"
        BY <1>0, <1>3, <2>1 DEF RemoteWrite, TypeInv, HandlerTypes
      <4>3. QED
        BY <2>4, <4>1, <4>2
    <3>2. \A v \in queue' : Logged(v)' /\ v \in seen'
      BY <2>1, <2>2 DEF HandPlaces, TwiceInv, TypeInv, WatchTypes, Logged
    <3>3. \A v \in Version : v \notin Issued' => announced'[v] = 0
      BY <1>h, <2>1, <2>2
    <3>4. QED
      BY <3>1, <3>2, <3>3 DEF HandPlaces
  <2>6. SnapPlaces'
    BY <2>1, <2>2, <2>3 DEF SnapPlaces, TwiceInv, TypeInv, StoreTypes, WatchTypes, KeyOf
  <2>7. ASSUME NEW v \in Issued PROVE Budget(v)'
    <3>1. HandDue(v)' => HandDue(v)
      BY <2>1, <2>2 DEF HandDue, Logged
    <3>2. SnapDue(v)' => SnapDue(v)
      BY <2>1, <2>2, <2>3 DEF SnapDue, KeyOf
    <3>3. v \in Version /\ Budget(v) /\ announced'[v] = announced[v] /\ announced[v] \in Nat
      BY <1>i, <1>c, <2>2 DEF TwiceInv
    <3>4. writes'[v] = writes[v]
      BY <2>1
    <3>5. QED
      BY <1>0, <3>1, <3>2, <3>3, <3>4, BudgetKept
  <2>8. Budget(n)'
    <3>1. HandDue(n)' => writes'[n].path \in {"local", "logged"}
      BY DEF HandDue, Logged
    <3>2. QED
      BY <1>h, <2>1, <2>2, <3>1, BudgetNew
  <2>9. QED
    BY <2>1, <2>5, <2>6, <2>7, <2>8
<1>4. ASSUME NEW u \in Version, RecordLocal(u)
      PROVE  HandPlaces' /\ SnapPlaces' /\ \A v \in Issued' : Budget(v)'
  <2>1. writes' = writes
    BY <1>4 DEF RecordLocal
  <2>2. HandPlaces'
    BY <1>4, <1>v DEF RecordLocal, HandPlaces, TwiceInv, Logged, logVars
  <2>3. SnapPlaces'
    BY <1>4, <1>i, <1>v
    DEF RecordLocal, SnapPlaces, TwiceInv, TypeInv, StoreTypes, WatchTypes, peerVars,
        snapVars
  <2>4. ASSUME NEW v \in Issued PROVE Budget(v)'
    <3>1. HandDue(v)' => HandDue(v)
      BY <1>4 DEF RecordLocal, HandDue, Logged, logVars
    <3>2. SnapDue(v)' => SnapDue(v)
      BY <1>4, <1>i, <1>v DEF RecordLocal, SnapDue, peerVars, snapVars
    <3>3. QED
      BY <1>i, <1>c, <1>4, <3>1, <3>2, BudgetKept DEF RecordLocal, TwiceInv
  <2>5. QED
    BY <1>v, <2>1, <2>2, <2>3, <2>4
<1>5. ASSUME NEW u \in Version, NotifyLocal(u)
      PROVE  HandPlaces' /\ SnapPlaces' /\ \A v \in Issued' : Budget(v)'
  <2>1. writes' = writes
    BY <1>5 DEF NotifyLocal
  <2>2. HandPlaces'
    BY <1>5, <1>v
    DEF NotifyLocal, Announce, HandPlaces, TwiceInv, TypeInv, HandlerTypes, Logged, logVars
  <2>3. SnapPlaces'
    BY <1>5, <1>i, <1>v
    DEF NotifyLocal, SnapPlaces, TwiceInv, TypeInv, StoreTypes, WatchTypes, peerVars,
        snapVars
  <2>4. ASSUME NEW v \in Issued PROVE Budget(v)'
    <3>1. HandDue(v)' => HandDue(v)
      BY <1>5 DEF NotifyLocal, HandDue, Logged, logVars
    <3>2. SnapDue(v)' => SnapDue(v)
      BY <1>5, <1>i, <1>v DEF NotifyLocal, SnapDue, peerVars, snapVars
    <3>3. CASE v = u
      <4>1. HandDue(v) /\ ~ HandDue(v)'
        BY <1>5, <3>3
        DEF NotifyLocal, HandDue, Logged, TwiceInv, HandPlaces, TypeInv, HandlerTypes
      <4>2. announced'[v] = announced[v] + 1 \/ announced'[v] = announced[v]
        BY <1>i, <1>5 DEF NotifyLocal, Announce
      <4>3. QED
        BY <1>i, <1>c, <2>1, <3>2, <4>1, <4>2, BudgetKept, BudgetSpent DEF TwiceInv
    <3>4. CASE ~ (v = u)
      <4>1. announced'[v] = announced[v]
        BY <1>i, <1>5, <3>4 DEF NotifyLocal, Announce
      <4>2. QED
        BY <1>i, <1>c, <2>1, <3>1, <3>2, <4>1, BudgetKept DEF TwiceInv
    <3>5. QED
      BY <3>3, <3>4
  <2>5. QED
    BY <1>v, <2>1, <2>2, <2>3, <2>4
<1>6. ASSUME NEW u \in Version, HandlerDies(u)
      PROVE  HandPlaces' /\ SnapPlaces' /\ \A v \in Issued' : Budget(v)'
  <2>1. writes' = writes
    BY <1>6 DEF HandlerDies
  <2>2. HandPlaces'
    BY <1>6, <1>v DEF HandlerDies, HandPlaces, TwiceInv, Logged, logVars
  <2>3. SnapPlaces'
    BY <1>6, <1>i, <1>v
    DEF HandlerDies, SnapPlaces, TwiceInv, TypeInv, StoreTypes, WatchTypes, peerVars,
        snapVars
  <2>4. ASSUME NEW v \in Issued PROVE Budget(v)'
    <3>1. HandDue(v)' => HandDue(v)
      BY <1>6 DEF HandlerDies, HandDue, Logged, logVars
    <3>2. SnapDue(v)' => SnapDue(v)
      BY <1>6, <1>i, <1>v DEF HandlerDies, SnapDue, peerVars, snapVars
    <3>3. QED
      BY <1>i, <1>c, <1>6, <3>1, <3>2, BudgetKept DEF HandlerDies, TwiceInv
  <2>5. QED
    BY <1>v, <2>1, <2>2, <2>3, <2>4
<1>7. ASSUME NEW u \in Version, RowArrives(u)
      PROVE  HandPlaces' /\ SnapPlaces' /\ \A v \in Issued' : Budget(v)'
  <2>1. writes' = writes
    BY <1>7 DEF RowArrives
  <2>2. HandPlaces'
    BY <1>7, <1>v DEF RowArrives, HandPlaces, TwiceInv, Logged, logVars
  <2>3. SnapPlaces'
    BY <1>7, <1>i, <1>v
    DEF RowArrives, SnapPlaces, TwiceInv, TypeInv, StoreTypes, WatchTypes, snapVars
  <2>4. ASSUME NEW v \in Issued PROVE Budget(v)'
    <3>1. HandDue(v)' => HandDue(v)
      BY <1>7 DEF RowArrives, HandDue, Logged, logVars
    <3>2. SnapDue(v)' => SnapDue(v)
      BY <1>7, <1>i, <1>v DEF RowArrives, SnapDue, snapVars
    <3>3. QED
      BY <1>i, <1>c, <1>7, <3>1, <3>2, BudgetKept DEF RowArrives, TwiceInv
  <2>5. QED
    BY <1>v, <2>1, <2>2, <2>3, <2>4
<1>8. ASSUME NEW u \in Version, PushArrives(u)
      PROVE  HandPlaces' /\ SnapPlaces' /\ \A v \in Issued' : Budget(v)'
  <2>1. writes' = writes
    BY <1>8 DEF PushArrives
  <2>2. HandPlaces'
    BY <1>8, <1>v DEF PushArrives, HandPlaces, TwiceInv, Logged, logVars
  <2>3. SnapPlaces'
    BY <1>8, <1>i, <1>v
    DEF PushArrives, SnapPlaces, TwiceInv, TypeInv, StoreTypes, WatchTypes, snapVars
  <2>4. ASSUME NEW v \in Issued PROVE Budget(v)'
    <3>1. HandDue(v)' => HandDue(v)
      BY <1>8 DEF PushArrives, HandDue, Logged, logVars
    <3>2. SnapDue(v)' => SnapDue(v)
      BY <1>8, <1>i, <1>v DEF PushArrives, SnapDue, snapVars
    <3>3. QED
      BY <1>i, <1>c, <1>8, <3>1, <3>2, BudgetKept DEF PushArrives, TwiceInv
  <2>5. QED
    BY <1>v, <2>1, <2>2, <2>3, <2>4
<1>9. ASSUME NEW u \in Version, PushInserts(u)
      PROVE  HandPlaces' /\ SnapPlaces' /\ \A v \in Issued' : Budget(v)'
  <2>1. writes' = writes
    BY <1>9 DEF PushInserts
  <2>2. HandPlaces'
    BY <1>9, <1>v DEF PushInserts, HandPlaces, TwiceInv, Logged, logVars
  <2>3. SnapPlaces'
    BY <1>9, <1>i, <1>v
    DEF PushInserts, SnapPlaces, TwiceInv, TypeInv, StoreTypes, WatchTypes, snapVars
  <2>4. ASSUME NEW v \in Issued PROVE Budget(v)'
    <3>1. HandDue(v)' => HandDue(v)
      BY <1>9 DEF PushInserts, HandDue, Logged, logVars
    <3>2. SnapDue(v)' => SnapDue(v)
      BY <1>0, <1>9, <1>i, <1>v DEF PushInserts, SnapDue, TypeInv, StoreTypes, snapVars
    <3>3. QED
      BY <1>i, <1>c, <1>9, <3>1, <3>2, BudgetKept DEF PushInserts, TwiceInv
  <2>5. QED
    BY <1>v, <2>1, <2>2, <2>3, <2>4
<1>10. ASSUME NEW u \in Version, LogEvent(u)
      PROVE  HandPlaces' /\ SnapPlaces' /\ \A v \in Issued' : Budget(v)'
  <2>1. writes' = writes
    BY <1>10 DEF LogEvent
  <2>2. HandPlaces'
    BY <1>10, <1>v DEF LogEvent, HandPlaces, TwiceInv, Logged
  <2>3. SnapPlaces'
    BY <1>10, <1>i, <1>v
    DEF LogEvent, SnapPlaces, TwiceInv, TypeInv, StoreTypes, WatchTypes, peerVars, snapVars
  <2>4. ASSUME NEW v \in Issued PROVE Budget(v)'
    <3>1. HandDue(v)' => HandDue(v)
      BY <1>10 DEF LogEvent, HandDue, Logged
    <3>2. SnapDue(v)' => SnapDue(v)
      BY <1>10, <1>i, <1>v DEF LogEvent, SnapDue, peerVars, snapVars
    <3>3. QED
      BY <1>i, <1>c, <1>10, <3>1, <3>2, BudgetKept DEF LogEvent, TwiceInv
  <2>5. QED
    BY <1>v, <2>1, <2>2, <2>3, <2>4
<1>11. CASE LogServe
  <2>1. writes' = writes
    BY <1>11 DEF LogServe
  <2>2. HandPlaces'
    BY <1>11, <1>v DEF LogServe, Announce, HandPlaces, TwiceInv, TypeInv, WatchTypes
  <2>3. SnapPlaces'
    BY <1>11, <1>i, <1>v
    DEF LogServe, SnapPlaces, TwiceInv, TypeInv, StoreTypes, WatchTypes, peerVars, snapVars
  <2>4. ASSUME NEW v \in Issued PROVE Budget(v)'
    <3>1. HandDue(v)' => HandDue(v)
      BY <1>11 DEF LogServe, HandDue, Logged
    <3>2. SnapDue(v)' => SnapDue(v)
      BY <1>11, <1>i, <1>v DEF LogServe, SnapDue, peerVars, snapVars
    <3>3. CASE v \in queue
      <4>1. HandDue(v) /\ ~ HandDue(v)'
        BY <1>11, <3>3 DEF LogServe, HandDue, Logged, TwiceInv, HandPlaces
      <4>2. announced'[v] = announced[v] + 1 \/ announced'[v] = announced[v]
        BY <1>i, <1>11 DEF LogServe, Announce
      <4>3. QED
        BY <1>i, <1>c, <2>1, <3>2, <4>1, <4>2, BudgetKept, BudgetSpent DEF TwiceInv
    <3>4. CASE ~ (v \in queue)
      <4>1. announced'[v] = announced[v]
        BY <1>i, <1>11, <3>4 DEF LogServe, Announce
      <4>2. QED
        BY <1>i, <1>c, <2>1, <3>1, <3>2, <4>1, BudgetKept DEF TwiceInv
    <3>5. QED
      BY <3>3, <3>4
  <2>5. QED
    BY <1>v, <2>1, <2>2, <2>3, <2>4
<1>12. CASE LogServeFails
  <2>1. writes' = writes
    BY <1>12 DEF LogServeFails
  <2>2. HandPlaces'
    BY <1>12, <1>v DEF LogServeFails, Announce, HandPlaces, TwiceInv, TypeInv, WatchTypes
  <2>3. SnapPlaces'
    BY <1>12, <1>i, <1>v
    DEF LogServeFails, SnapPlaces, TwiceInv, TypeInv, StoreTypes, WatchTypes, peerVars,
        snapVars
  <2>4. ASSUME NEW v \in Issued PROVE Budget(v)'
    <3>1. HandDue(v)' => HandDue(v)
      BY <1>12 DEF LogServeFails, HandDue, Logged
    <3>2. SnapDue(v)' => SnapDue(v)
      BY <1>12, <1>i, <1>v DEF LogServeFails, SnapDue, peerVars, snapVars
    <3>3. CASE v \in queue
      <4>1. HandDue(v) /\ ~ HandDue(v)'
        BY <1>12, <3>3 DEF LogServeFails, HandDue, Logged, TwiceInv, HandPlaces
      <4>2. announced'[v] = announced[v] + 1 \/ announced'[v] = announced[v]
        BY <1>i, <1>12 DEF LogServeFails, Announce
      <4>3. QED
        BY <1>i, <1>c, <2>1, <3>2, <4>1, <4>2, BudgetKept, BudgetSpent DEF TwiceInv
    <3>4. CASE ~ (v \in queue)
      <4>1. announced'[v] = announced[v]
        BY <1>i, <1>12, <3>4 DEF LogServeFails, Announce
      <4>2. QED
        BY <1>i, <1>c, <2>1, <3>1, <3>2, <4>1, BudgetKept DEF TwiceInv
    <3>5. QED
      BY <3>3, <3>4
  <2>5. QED
    BY <1>v, <2>1, <2>2, <2>3, <2>4
<1>13. CASE SnapRead
  <2>1. writes' = writes
    BY <1>13 DEF SnapRead
  <2>2. HandPlaces'
    BY <1>13, <1>v DEF SnapRead, HandPlaces, TwiceInv, Logged, logVars
  <2>3. SnapPlaces'
    BY <1>0, <1>13, <1>i, <1>v
    DEF SnapRead, SnapPlaces, TwiceInv, TypeInv, WatchTypes, peerVars
  <2>4. ASSUME NEW v \in Issued PROVE Budget(v)'
    <3>1. HandDue(v)' => HandDue(v)
      BY <1>13 DEF SnapRead, HandDue, Logged, logVars
    <3>2. SnapDue(v)' => SnapDue(v)
      BY <1>13, <1>i, <1>v DEF SnapRead, SnapDue, TwiceInv, SnapPlaces, peerVars
    <3>3. QED
      BY <1>i, <1>c, <1>13, <3>1, <3>2, BudgetKept DEF SnapRead, TwiceInv
  <2>5. QED
    BY <1>v, <2>1, <2>2, <2>3, <2>4
<1>14. CASE SnapCompare
  <2>1. writes' = writes
    BY <1>14 DEF SnapCompare
  <2>2. HandPlaces'
    BY <1>14, <1>v DEF SnapCompare, HandPlaces, TwiceInv, Logged, logVars
  <2>3. \A v \in snapQueue' : \E k \in Key : v = current[k] /\ v # previous[k] /\ v # 0
    <3>1. \A k \in Changed : k \in Key /\ current[k] # previous[k] /\ current[k] # 0
      BY <1>0 DEF Changed, TypeInv, Known
    <3>2. snapQueue' \subseteq {current[k] : k \in Changed}
      BY <1>14 DEF SnapCompare
    <3>3. QED
      BY <3>1, <3>2
  <2>4. \A v \in snapQueue' : \E k \in Key : k = KeyOf(v) /\ v = current[k] /\ v # previous[k] /\ v # 0
    BY <2>3 DEF TwiceInv, SnapPlaces
  <2>5. SnapPlaces'
    BY <1>14, <2>4 DEF SnapCompare, SnapPlaces, TwiceInv, KeyOf, peerVars
  <2>6. ASSUME NEW v \in Issued PROVE Budget(v)'
    <3>1. HandDue(v)' => HandDue(v)
      BY <1>14 DEF SnapCompare, HandDue, Logged, logVars
    <3>2. SnapDue(v)' => SnapDue(v)
      BY <1>14, <2>4 DEF SnapCompare, SnapDue, KeyOf, peerVars
    <3>3. QED
      BY <1>i, <1>c, <1>14, <3>1, <3>2, BudgetKept DEF SnapCompare, TwiceInv
  <2>7. QED
    BY <1>v, <2>1, <2>2, <2>5, <2>6
<1>15. CASE SnapServe
  <2>1. writes' = writes
    BY <1>15 DEF SnapServe
  <2>2. HandPlaces'
    BY <1>15, <1>v
    DEF SnapServe, Announce, HandPlaces, TwiceInv, TypeInv, WatchTypes, Logged, logVars
  <2>3. SnapPlaces'
    BY <1>15, <1>i, <1>v
    DEF SnapServe, SnapPlaces, TwiceInv, TypeInv, StoreTypes, WatchTypes, peerVars
  <2>4. ASSUME NEW v \in Issued PROVE Budget(v)'
    <3>1. HandDue(v)' => HandDue(v)
      BY <1>15 DEF SnapServe, HandDue, Logged, logVars
    <3>2. SnapDue(v)' => SnapDue(v)
      BY <1>15, <1>i, <1>v DEF SnapServe, SnapDue, peerVars
    <3>3. CASE v \in snapQueue
      <4>1. SnapDue(v) /\ ~ SnapDue(v)'
        BY <1>15, <1>i, <1>v, <3>3 DEF SnapServe, SnapDue, TwiceInv, SnapPlaces, peerVars
      <4>2. announced'[v] = announced[v] + 1 \/ announced'[v] = announced[v]
        BY <1>i, <1>15 DEF SnapServe, Announce
      <4>3. QED
        BY <1>i, <1>c, <2>1, <3>1, <4>1, <4>2, BudgetKept, BudgetSpent DEF TwiceInv
    <3>4. CASE ~ (v \in snapQueue)
      <4>1. announced'[v] = announced[v]
        BY <1>i, <1>15, <3>4 DEF SnapServe, Announce
      <4>2. QED
        BY <1>i, <1>c, <2>1, <3>1, <3>2, <4>1, BudgetKept DEF TwiceInv
    <3>5. QED
      BY <3>3, <3>4
  <2>5. QED
    BY <1>v, <2>1, <2>2, <2>3, <2>4
<1>16. CASE SnapServeFails
  <2>1. writes' = writes
    BY <1>16 DEF SnapServeFails
  <2>2. HandPlaces'
    BY <1>16, <1>v
    DEF SnapServeFails, Announce, HandPlaces, TwiceInv, TypeInv, WatchTypes, Logged, logVars
  <2>3. SnapPlaces'
    BY <1>16, <1>i, <1>v
    DEF SnapServeFails, SnapPlaces, TwiceInv, TypeInv, StoreTypes, WatchTypes, peerVars
  <2>4. ASSUME NEW v \in Issued PROVE Budget(v)'
    <3>1. HandDue(v)' => HandDue(v)
      BY <1>16 DEF SnapServeFails, HandDue, Logged, logVars
    <3>2. SnapDue(v)' => SnapDue(v)
      BY <1>16, <1>i, <1>v DEF SnapServeFails, SnapDue, peerVars
    <3>3. CASE v \in snapQueue
      <4>1. SnapDue(v) /\ ~ SnapDue(v)'
        BY <1>16, <1>i, <1>v, <3>3
        DEF SnapServeFails, SnapDue, TwiceInv, SnapPlaces, peerVars
      <4>2. announced'[v] = announced[v] + 1 \/ announced'[v] = announced[v]
        BY <1>i, <1>16 DEF SnapServeFails, Announce
      <4>3. QED
        BY <1>i, <1>c, <2>1, <3>1, <4>1, <4>2, BudgetKept, BudgetSpent DEF TwiceInv
    <3>4. CASE ~ (v \in snapQueue)
      <4>1. announced'[v] = announced[v]
        BY <1>i, <1>16, <3>4 DEF SnapServeFails, Announce
      <4>2. QED
        BY <1>i, <1>c, <2>1, <3>1, <3>2, <4>1, BudgetKept DEF TwiceInv
    <3>5. QED
      BY <3>3, <3>4
  <2>5. QED
    BY <1>v, <2>1, <2>2, <2>3, <2>4
<1>17. CASE Restart
  <2>1. writes' = writes
    BY <1>17 DEF Restart
  <2>2. HandPlaces' /\ SnapPlaces'
    BY <1>17, <1>i, <1>v
    DEF Restart, HandPlaces, SnapPlaces, TwiceInv, TypeInv, StoreTypes, peerVars
  <2>3. ASSUME NEW v \in Issued PROVE Budget(v)'
    <3>1. announced'[v] = 0
      BY <1>i, <1>17 DEF Restart
    <3>2. HandDue(v)' => writes'[v].path \in {"local", "logged"}
      BY DEF HandDue, Logged
    <3>3. QED
      BY <1>i, <3>1, <3>2, BudgetNew
  <2>4. QED
    BY <1>v, <2>1, <2>2, <2>3
<1>18. CASE UNCHANGED vars
  BY <1>18, <1>v
  DEF vars, peerVars, logVars, snapVars, HandPlaces, SnapPlaces, TwiceInv, Budget, HandDue,
      SnapDue, Limit, Logged, KeyOf
<1>19. QED
  BY <1>1, <1>2, <1>3, <1>4, <1>5, <1>6, <1>7, <1>8, <1>9, <1>10, <1>11, <1>12, <1>13,
     <1>14, <1>15, <1>16, <1>17, <1>18
  DEF Next

\* In one life of the process no change is announced more than twice, and one
\* that neither its handler nor the log watcher has heard of at most once:
\* with peer batches, failures and restarts, for any number of writes.
THEOREM NeverThrice == Spec => []AtMostTwice
<1>1. TwiceInv => AtMostTwice
  <2> SUFFICES ASSUME TwiceInv, NEW v \in Issued PROVE announced[v] <= Limit(v)
    BY DEF AtMostTwice, Limit
  <2>1. v \in Version /\ announced[v] \in Nat
    BY IssuedKey DEF TwiceInv, TypeInv, CountTypes
  <2>2. QED
    BY <2>1 DEF TwiceInv, Budget, Limit
<1>2. QED
  BY <1>1, TwiceInit, TwiceStep, PTL DEF Spec
===============================================================================
