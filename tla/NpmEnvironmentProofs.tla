------------------------ MODULE NpmEnvironmentProofs ------------------------
(***************************************************************************)
(* Safety of NpmEnvironment for any calls, places, outputs and names.      *)
(***************************************************************************)
EXTENDS NpmEnvironment, TLAPS

(* A staging directory stands at the place of the call that made it, a     *)
(* container has the name of its call's place.                             *)
OwnersHere ==
    /\ \A l \in Place, p \in Call : staging[l] = p => At[p] = l
    /\ \A n \in Name, p \in Call : container[n] = p => NameOf[At[p]] = n

(* From its creation to its publication the staging directory stays the    *)
(* call's own, and its container has ended when the tree is checked.       *)
TreeOwn ==
    \A p \in Call :
        /\ pc[p] \in {"launch", "running"} \cup Publishing =>
              staging[At[p]] = p
        /\ pc[p] \in Publishing => container[NameOf[At[p]]] # p

(* A call publishes an output of its own place. *)
BuiltHere ==
    \A p \in Call :
        pc[p] \in Publishing \cup {"moved", "index", "heal", "redundant"} =>
            built[p] \in Output /\ PlaceOf[built[p]] = At[p]

(* What stands at the path of the tree that a call publishes. *)
OutputStands ==
    \A p \in Call :
        /\ pc[p] = "quarantine" =>
              output[built[p]] # "valid" \/ built[p] \in misread
        /\ pc[p] = "moved" => output[built[p]] = "absent"
        /\ pc[p] \in {"index", "heal", "redundant"} =>
              \/ output[built[p]] = "valid"
              \/ built[p] \in damaged \cup misread

(* A call answers when it is done, and before that it has no answer. *)
AnswersOnce ==
    \A p \in Call :
        returned[p] = NoOutput \/ pc[p] \in {"release"} \cup Ended

Inv ==
    /\ TypeOK
    /\ LockExclusive
    /\ OwnersHere
    /\ StagingCleaned
    /\ ContainerCleaned
    /\ TreeOwn
    /\ BuiltHere
    /\ AssemblesOnlyMissing
    /\ OutputStands
    /\ AnswersOnce

-----------------------------------------------------------------------------

LEMMA InvInit == Init => Inv
BY ConstantsAssumption
   DEF Init, Inv, TypeOK, LockExclusive, OwnersHere, StagingCleaned,
       ContainerCleaned, TreeOwn, BuiltHere, AssemblesOnlyMissing, OutputStands,
       AnswersOnce, Publishing, Staged, Locked, Active, Ended

LEMMA InvStutter == Inv /\ UNCHANGED vars => Inv'
BY DEF vars, locals, shared, stagingVars, containerVars, storeVars, history,
       Inv, TypeOK, LockExclusive, OwnersHere, StagingCleaned,
       ContainerCleaned, TreeOwn, BuiltHere, AssemblesOnlyMissing, OutputStands,
       AnswersOnce, Indexed, Verified

LEMMA TypeProceed ==
    ASSUME TypeOK, BuiltHere, NEW p \in Call, Proceed(p)
    PROVE  TypeOK'
<1> USE ConstantsAssumption
        DEF TypeOK, BuiltHere, Indexed,
            Go, Strike, Fault, PutStaging, locals, shared, stagingVars,
            containerVars, storeVars, history, Publishing, Staged, Locked, Active,
            Ended
<1>1. CASE FindNamespace(p) BY <1>1 DEF FindNamespace
<1>2. CASE CreateNamespace(p) BY <1>2 DEF CreateNamespace
<1>3. CASE NamespaceExists(p) BY <1>3 DEF NamespaceExists
<1>4. CASE AcquireLock(p) BY <1>4 DEF AcquireLock
<1>5. CASE CacheHit(p) BY <1>5 DEF CacheHit
<1>6. CASE CacheMiss(p) BY <1>6 DEF CacheMiss
<1>7. CASE RemoveAbandoned(p) BY <1>7 DEF RemoveAbandoned
<1>8. CASE AbandonedSealed(p) BY <1>8 DEF AbandonedSealed
<1>9. CASE CreateStaging(p) BY <1>9 DEF CreateStaging
<1>10. CASE StartContainer(p) BY <1>10 DEF StartContainer
<1>11. CASE NameTaken(p) BY <1>11 DEF NameTaken
<1>12. CASE ContainerSucceeds(p) BY <1>12 DEF ContainerSucceeds
<1>13. CASE ContainerGone(p) BY <1>13 DEF ContainerGone
<1>14. CASE RemoveContainer(p) BY <1>14 DEF RemoveContainer
<1>15. CASE DropStaging(p) BY <1>15 DEF DropStaging
<1>16. CASE SealedStays(p) BY <1>16 DEF SealedStays
<1>17. CASE ValidateTree(p) BY <1>17 DEF ValidateTree
<1>18. CASE SealTree(p) BY <1>18 DEF SealTree
<1>19. CASE Collide(p) BY <1>19 DEF Collide
<1>20. CASE MoveTree(p) BY <1>20 DEF MoveTree
<1>21. CASE PublishOutput(p) BY <1>21 DEF PublishOutput
<1>22. CASE AppendIndex(p) BY <1>22 DEF AppendIndex
<1>23. CASE VerifiedCollision(p) BY <1>23 DEF VerifiedCollision
<1>24. CASE HealIndex(p) BY <1>24 DEF HealIndex
<1>25. CASE RemoveRedundant(p) BY <1>25 DEF RemoveRedundant
<1>26. CASE CorruptCollision(p) BY <1>26 DEF CorruptCollision
<1>27. CASE QuarantineOutput(p) BY <1>27 DEF QuarantineOutput
<1>28. CASE QuarantineNothing(p) BY <1>28 DEF QuarantineNothing
<1>29. CASE RemoveTmp(p) BY <1>29 DEF RemoveTmp
<1>30. CASE ReleaseLock(p) BY <1>30 DEF ReleaseLock
<1> QED
  BY <1>1, <1>2, <1>3, <1>4, <1>5, <1>6, <1>7, <1>8, <1>9, <1>10, <1>11,
     <1>12, <1>13, <1>14, <1>15, <1>16, <1>17, <1>18, <1>19, <1>20, <1>21,
     <1>22, <1>23, <1>24, <1>25, <1>26, <1>27, <1>28, <1>29, <1>30 DEF Proceed

LEMMA TypeBreak ==
    ASSUME TypeOK, BuiltHere, NEW p \in Call, Break(p)
    PROVE  TypeOK'
<1> USE ConstantsAssumption
        DEF TypeOK, BuiltHere, Indexed,
            Go, Strike, Fault, PutStaging, locals, shared, stagingVars,
            containerVars, storeVars, history, Publishing, Staged, Locked, Active,
            Ended
<1>1. CASE MisreadLookup(p) BY <1>1 DEF MisreadLookup
<1>2. CASE AbandonedBusy(p) BY <1>2 DEF AbandonedBusy
<1>3. CASE ContainerFails(p) BY <1>3 DEF ContainerFails
<1>4. CASE FailUnlocked(p) BY <1>4 DEF FailUnlocked
<1>5. CASE FailLocked(p) BY <1>5 DEF FailLocked
<1>6. CASE FailCreated(p) BY <1>6 DEF FailCreated
<1>7. CASE FailRun(p) BY <1>7 DEF FailRun
<1>8. CASE FailStaged(p) BY <1>8 DEF FailStaged
<1>9. CASE FailMoved(p) BY <1>9 DEF FailMoved
<1>10. CASE FailPublished(p) BY <1>10 DEF FailPublished
<1>11. CASE RedundantStays(p) BY <1>11 DEF RedundantStays
<1>12. CASE IndexUnwritten(p) BY <1>12 DEF IndexUnwritten
<1>13. CASE RemovalFails(p) BY <1>13 DEF RemovalFails
<1>14. CASE DropFails(p) BY <1>14 DEF DropFails
<1>15. CASE MisreadCollision(p) BY <1>15 DEF MisreadCollision
<1>16. CASE Crash(p) BY <1>16 DEF Crash
<1> QED
  BY <1>1, <1>2, <1>3, <1>4, <1>5, <1>6, <1>7, <1>8, <1>9, <1>10, <1>11,
     <1>12, <1>13, <1>14, <1>15, <1>16 DEF Break

LEMMA LockProceed ==
    ASSUME TypeOK, LockExclusive, NEW p \in Call, Proceed(p)
    PROVE  LockExclusive'
<1> USE ConstantsAssumption
        DEF TypeOK, LockExclusive,
            Go, Strike, Fault, PutStaging, locals, shared, stagingVars,
            containerVars, storeVars, history, Publishing, Staged, Locked, Active,
            Ended
<1>1. CASE FindNamespace(p) BY <1>1 DEF FindNamespace
<1>2. CASE CreateNamespace(p) BY <1>2 DEF CreateNamespace
<1>3. CASE NamespaceExists(p) BY <1>3 DEF NamespaceExists
<1>4. CASE AcquireLock(p) BY <1>4 DEF AcquireLock
<1>5. CASE CacheHit(p) BY <1>5 DEF CacheHit
<1>6. CASE CacheMiss(p) BY <1>6 DEF CacheMiss
<1>7. CASE RemoveAbandoned(p) BY <1>7 DEF RemoveAbandoned
<1>8. CASE AbandonedSealed(p) BY <1>8 DEF AbandonedSealed
<1>9. CASE CreateStaging(p) BY <1>9 DEF CreateStaging
<1>10. CASE StartContainer(p) BY <1>10 DEF StartContainer
<1>11. CASE NameTaken(p) BY <1>11 DEF NameTaken
<1>12. CASE ContainerSucceeds(p) BY <1>12 DEF ContainerSucceeds
<1>13. CASE ContainerGone(p) BY <1>13 DEF ContainerGone
<1>14. CASE RemoveContainer(p) BY <1>14 DEF RemoveContainer
<1>15. CASE DropStaging(p) BY <1>15 DEF DropStaging
<1>16. CASE SealedStays(p) BY <1>16 DEF SealedStays
<1>17. CASE ValidateTree(p) BY <1>17 DEF ValidateTree
<1>18. CASE SealTree(p) BY <1>18 DEF SealTree
<1>19. CASE Collide(p) BY <1>19 DEF Collide
<1>20. CASE MoveTree(p) BY <1>20 DEF MoveTree
<1>21. CASE PublishOutput(p) BY <1>21 DEF PublishOutput
<1>22. CASE AppendIndex(p) BY <1>22 DEF AppendIndex
<1>23. CASE VerifiedCollision(p) BY <1>23 DEF VerifiedCollision
<1>24. CASE HealIndex(p) BY <1>24 DEF HealIndex
<1>25. CASE RemoveRedundant(p) BY <1>25 DEF RemoveRedundant
<1>26. CASE CorruptCollision(p) BY <1>26 DEF CorruptCollision
<1>27. CASE QuarantineOutput(p) BY <1>27 DEF QuarantineOutput
<1>28. CASE QuarantineNothing(p) BY <1>28 DEF QuarantineNothing
<1>29. CASE RemoveTmp(p) BY <1>29 DEF RemoveTmp
<1>30. CASE ReleaseLock(p) BY <1>30 DEF ReleaseLock
<1> QED
  BY <1>1, <1>2, <1>3, <1>4, <1>5, <1>6, <1>7, <1>8, <1>9, <1>10, <1>11,
     <1>12, <1>13, <1>14, <1>15, <1>16, <1>17, <1>18, <1>19, <1>20, <1>21,
     <1>22, <1>23, <1>24, <1>25, <1>26, <1>27, <1>28, <1>29, <1>30 DEF Proceed

LEMMA LockBreak ==
    ASSUME TypeOK, LockExclusive, NEW p \in Call, Break(p)
    PROVE  LockExclusive'
<1> USE ConstantsAssumption
        DEF TypeOK, LockExclusive,
            Go, Strike, Fault, PutStaging, locals, shared, stagingVars,
            containerVars, storeVars, history, Publishing, Staged, Locked, Active,
            Ended
<1>1. CASE MisreadLookup(p) BY <1>1 DEF MisreadLookup
<1>2. CASE AbandonedBusy(p) BY <1>2 DEF AbandonedBusy
<1>3. CASE ContainerFails(p) BY <1>3 DEF ContainerFails
<1>4. CASE FailUnlocked(p) BY <1>4 DEF FailUnlocked
<1>5. CASE FailLocked(p) BY <1>5 DEF FailLocked
<1>6. CASE FailCreated(p) BY <1>6 DEF FailCreated
<1>7. CASE FailRun(p) BY <1>7 DEF FailRun
<1>8. CASE FailStaged(p) BY <1>8 DEF FailStaged
<1>9. CASE FailMoved(p) BY <1>9 DEF FailMoved
<1>10. CASE FailPublished(p) BY <1>10 DEF FailPublished
<1>11. CASE RedundantStays(p) BY <1>11 DEF RedundantStays
<1>12. CASE IndexUnwritten(p) BY <1>12 DEF IndexUnwritten
<1>13. CASE RemovalFails(p) BY <1>13 DEF RemovalFails
<1>14. CASE DropFails(p) BY <1>14 DEF DropFails
<1>15. CASE MisreadCollision(p) BY <1>15 DEF MisreadCollision
<1>16. CASE Crash(p) BY <1>16 DEF Crash
<1> QED
  BY <1>1, <1>2, <1>3, <1>4, <1>5, <1>6, <1>7, <1>8, <1>9, <1>10, <1>11,
     <1>12, <1>13, <1>14, <1>15, <1>16 DEF Break

LEMMA OwnerProceed ==
    ASSUME TypeOK, OwnersHere, NEW p \in Call, Proceed(p)
    PROVE  OwnersHere'
<1> USE ConstantsAssumption
        DEF TypeOK, OwnersHere,
            Go, Strike, Fault, PutStaging, locals, shared, stagingVars,
            containerVars, storeVars, history, Publishing, Staged, Locked, Active,
            Ended
<1>1. CASE FindNamespace(p) BY <1>1 DEF FindNamespace
<1>2. CASE CreateNamespace(p) BY <1>2 DEF CreateNamespace
<1>3. CASE NamespaceExists(p) BY <1>3 DEF NamespaceExists
<1>4. CASE AcquireLock(p) BY <1>4 DEF AcquireLock
<1>5. CASE CacheHit(p) BY <1>5 DEF CacheHit
<1>6. CASE CacheMiss(p) BY <1>6 DEF CacheMiss
<1>7. CASE RemoveAbandoned(p) BY <1>7 DEF RemoveAbandoned
<1>8. CASE AbandonedSealed(p) BY <1>8 DEF AbandonedSealed
<1>9. CASE CreateStaging(p) BY <1>9 DEF CreateStaging
<1>10. CASE StartContainer(p) BY <1>10 DEF StartContainer
<1>11. CASE NameTaken(p) BY <1>11 DEF NameTaken
<1>12. CASE ContainerSucceeds(p) BY <1>12 DEF ContainerSucceeds
<1>13. CASE ContainerGone(p) BY <1>13 DEF ContainerGone
<1>14. CASE RemoveContainer(p) BY <1>14 DEF RemoveContainer
<1>15. CASE DropStaging(p) BY <1>15 DEF DropStaging
<1>16. CASE SealedStays(p) BY <1>16 DEF SealedStays
<1>17. CASE ValidateTree(p) BY <1>17 DEF ValidateTree
<1>18. CASE SealTree(p) BY <1>18 DEF SealTree
<1>19. CASE Collide(p) BY <1>19 DEF Collide
<1>20. CASE MoveTree(p) BY <1>20 DEF MoveTree
<1>21. CASE PublishOutput(p) BY <1>21 DEF PublishOutput
<1>22. CASE AppendIndex(p) BY <1>22 DEF AppendIndex
<1>23. CASE VerifiedCollision(p) BY <1>23 DEF VerifiedCollision
<1>24. CASE HealIndex(p) BY <1>24 DEF HealIndex
<1>25. CASE RemoveRedundant(p) BY <1>25 DEF RemoveRedundant
<1>26. CASE CorruptCollision(p) BY <1>26 DEF CorruptCollision
<1>27. CASE QuarantineOutput(p) BY <1>27 DEF QuarantineOutput
<1>28. CASE QuarantineNothing(p) BY <1>28 DEF QuarantineNothing
<1>29. CASE RemoveTmp(p) BY <1>29 DEF RemoveTmp
<1>30. CASE ReleaseLock(p) BY <1>30 DEF ReleaseLock
<1> QED
  BY <1>1, <1>2, <1>3, <1>4, <1>5, <1>6, <1>7, <1>8, <1>9, <1>10, <1>11,
     <1>12, <1>13, <1>14, <1>15, <1>16, <1>17, <1>18, <1>19, <1>20, <1>21,
     <1>22, <1>23, <1>24, <1>25, <1>26, <1>27, <1>28, <1>29, <1>30 DEF Proceed

LEMMA OwnerBreak ==
    ASSUME TypeOK, OwnersHere, NEW p \in Call, Break(p)
    PROVE  OwnersHere'
<1> USE ConstantsAssumption
        DEF TypeOK, OwnersHere,
            Go, Strike, Fault, PutStaging, locals, shared, stagingVars,
            containerVars, storeVars, history, Publishing, Staged, Locked, Active,
            Ended
<1>1. CASE MisreadLookup(p) BY <1>1 DEF MisreadLookup
<1>2. CASE AbandonedBusy(p) BY <1>2 DEF AbandonedBusy
<1>3. CASE ContainerFails(p) BY <1>3 DEF ContainerFails
<1>4. CASE FailUnlocked(p) BY <1>4 DEF FailUnlocked
<1>5. CASE FailLocked(p) BY <1>5 DEF FailLocked
<1>6. CASE FailCreated(p) BY <1>6 DEF FailCreated
<1>7. CASE FailRun(p) BY <1>7 DEF FailRun
<1>8. CASE FailStaged(p) BY <1>8 DEF FailStaged
<1>9. CASE FailMoved(p) BY <1>9 DEF FailMoved
<1>10. CASE FailPublished(p) BY <1>10 DEF FailPublished
<1>11. CASE RedundantStays(p) BY <1>11 DEF RedundantStays
<1>12. CASE IndexUnwritten(p) BY <1>12 DEF IndexUnwritten
<1>13. CASE RemovalFails(p) BY <1>13 DEF RemovalFails
<1>14. CASE DropFails(p) BY <1>14 DEF DropFails
<1>15. CASE MisreadCollision(p) BY <1>15 DEF MisreadCollision
<1>16. CASE Crash(p) BY <1>16 DEF Crash
<1> QED
  BY <1>1, <1>2, <1>3, <1>4, <1>5, <1>6, <1>7, <1>8, <1>9, <1>10, <1>11,
     <1>12, <1>13, <1>14, <1>15, <1>16 DEF Break

LEMMA StagingProceed ==
    ASSUME TypeOK, OwnersHere, StagingCleaned, NEW p \in Call, Proceed(p)
    PROVE  StagingCleaned'
<1> USE ConstantsAssumption
        DEF TypeOK, OwnersHere, StagingCleaned,
            Go, Strike, Fault, PutStaging, locals, shared, stagingVars,
            containerVars, storeVars, history, Publishing, Staged, Locked, Active,
            Ended
<1>1. CASE FindNamespace(p) BY <1>1 DEF FindNamespace
<1>2. CASE CreateNamespace(p) BY <1>2 DEF CreateNamespace
<1>3. CASE NamespaceExists(p) BY <1>3 DEF NamespaceExists
<1>4. CASE AcquireLock(p) BY <1>4 DEF AcquireLock
<1>5. CASE CacheHit(p) BY <1>5 DEF CacheHit
<1>6. CASE CacheMiss(p) BY <1>6 DEF CacheMiss
<1>7. CASE RemoveAbandoned(p) BY <1>7 DEF RemoveAbandoned
<1>8. CASE AbandonedSealed(p) BY <1>8 DEF AbandonedSealed
<1>9. CASE CreateStaging(p) BY <1>9 DEF CreateStaging
<1>10. CASE StartContainer(p) BY <1>10 DEF StartContainer
<1>11. CASE NameTaken(p) BY <1>11 DEF NameTaken
<1>12. CASE ContainerSucceeds(p) BY <1>12 DEF ContainerSucceeds
<1>13. CASE ContainerGone(p) BY <1>13 DEF ContainerGone
<1>14. CASE RemoveContainer(p) BY <1>14 DEF RemoveContainer
<1>15. CASE DropStaging(p) BY <1>15 DEF DropStaging
<1>16. CASE SealedStays(p) BY <1>16 DEF SealedStays
<1>17. CASE ValidateTree(p) BY <1>17 DEF ValidateTree
<1>18. CASE SealTree(p) BY <1>18 DEF SealTree
<1>19. CASE Collide(p) BY <1>19 DEF Collide
<1>20. CASE MoveTree(p) BY <1>20 DEF MoveTree
<1>21. CASE PublishOutput(p) BY <1>21 DEF PublishOutput
<1>22. CASE AppendIndex(p) BY <1>22 DEF AppendIndex
<1>23. CASE VerifiedCollision(p) BY <1>23 DEF VerifiedCollision
<1>24. CASE HealIndex(p) BY <1>24 DEF HealIndex
<1>25. CASE RemoveRedundant(p) BY <1>25 DEF RemoveRedundant
<1>26. CASE CorruptCollision(p) BY <1>26 DEF CorruptCollision
<1>27. CASE QuarantineOutput(p) BY <1>27 DEF QuarantineOutput
<1>28. CASE QuarantineNothing(p) BY <1>28 DEF QuarantineNothing
<1>29. CASE RemoveTmp(p) BY <1>29 DEF RemoveTmp
<1>30. CASE ReleaseLock(p) BY <1>30 DEF ReleaseLock
<1> QED
  BY <1>1, <1>2, <1>3, <1>4, <1>5, <1>6, <1>7, <1>8, <1>9, <1>10, <1>11,
     <1>12, <1>13, <1>14, <1>15, <1>16, <1>17, <1>18, <1>19, <1>20, <1>21,
     <1>22, <1>23, <1>24, <1>25, <1>26, <1>27, <1>28, <1>29, <1>30 DEF Proceed

LEMMA StagingBreak ==
    ASSUME TypeOK, OwnersHere, StagingCleaned, NEW p \in Call, Break(p)
    PROVE  StagingCleaned'
<1> USE ConstantsAssumption
        DEF TypeOK, OwnersHere, StagingCleaned,
            Go, Strike, Fault, PutStaging, locals, shared, stagingVars,
            containerVars, storeVars, history, Publishing, Staged, Locked, Active,
            Ended
<1>1. CASE MisreadLookup(p) BY <1>1 DEF MisreadLookup
<1>2. CASE AbandonedBusy(p) BY <1>2 DEF AbandonedBusy
<1>3. CASE ContainerFails(p) BY <1>3 DEF ContainerFails
<1>4. CASE FailUnlocked(p) BY <1>4 DEF FailUnlocked
<1>5. CASE FailLocked(p) BY <1>5 DEF FailLocked
<1>6. CASE FailCreated(p) BY <1>6 DEF FailCreated
<1>7. CASE FailRun(p) BY <1>7 DEF FailRun
<1>8. CASE FailStaged(p) BY <1>8 DEF FailStaged
<1>9. CASE FailMoved(p) BY <1>9 DEF FailMoved
<1>10. CASE FailPublished(p) BY <1>10 DEF FailPublished
<1>11. CASE RedundantStays(p) BY <1>11 DEF RedundantStays
<1>12. CASE IndexUnwritten(p) BY <1>12 DEF IndexUnwritten
<1>13. CASE RemovalFails(p) BY <1>13 DEF RemovalFails
<1>14. CASE DropFails(p) BY <1>14 DEF DropFails
<1>15. CASE MisreadCollision(p) BY <1>15 DEF MisreadCollision
<1>16. CASE Crash(p) BY <1>16 DEF Crash
<1> QED
  BY <1>1, <1>2, <1>3, <1>4, <1>5, <1>6, <1>7, <1>8, <1>9, <1>10, <1>11,
     <1>12, <1>13, <1>14, <1>15, <1>16 DEF Break

LEMMA ContainerProceed ==
    ASSUME TypeOK, OwnersHere, ContainerCleaned, NEW p \in Call, Proceed(p)
    PROVE  ContainerCleaned'
<1> USE ConstantsAssumption
        DEF TypeOK, OwnersHere, ContainerCleaned,
            Go, Strike, Fault, PutStaging, locals, shared, stagingVars,
            containerVars, storeVars, history, Publishing, Staged, Locked, Active,
            Ended
<1>1. CASE FindNamespace(p) BY <1>1 DEF FindNamespace
<1>2. CASE CreateNamespace(p) BY <1>2 DEF CreateNamespace
<1>3. CASE NamespaceExists(p) BY <1>3 DEF NamespaceExists
<1>4. CASE AcquireLock(p) BY <1>4 DEF AcquireLock
<1>5. CASE CacheHit(p) BY <1>5 DEF CacheHit
<1>6. CASE CacheMiss(p) BY <1>6 DEF CacheMiss
<1>7. CASE RemoveAbandoned(p) BY <1>7 DEF RemoveAbandoned
<1>8. CASE AbandonedSealed(p) BY <1>8 DEF AbandonedSealed
<1>9. CASE CreateStaging(p) BY <1>9 DEF CreateStaging
<1>10. CASE StartContainer(p) BY <1>10 DEF StartContainer
<1>11. CASE NameTaken(p) BY <1>11 DEF NameTaken
<1>12. CASE ContainerSucceeds(p) BY <1>12 DEF ContainerSucceeds
<1>13. CASE ContainerGone(p) BY <1>13 DEF ContainerGone
<1>14. CASE RemoveContainer(p) BY <1>14 DEF RemoveContainer
<1>15. CASE DropStaging(p) BY <1>15 DEF DropStaging
<1>16. CASE SealedStays(p) BY <1>16 DEF SealedStays
<1>17. CASE ValidateTree(p) BY <1>17 DEF ValidateTree
<1>18. CASE SealTree(p) BY <1>18 DEF SealTree
<1>19. CASE Collide(p) BY <1>19 DEF Collide
<1>20. CASE MoveTree(p) BY <1>20 DEF MoveTree
<1>21. CASE PublishOutput(p) BY <1>21 DEF PublishOutput
<1>22. CASE AppendIndex(p) BY <1>22 DEF AppendIndex
<1>23. CASE VerifiedCollision(p) BY <1>23 DEF VerifiedCollision
<1>24. CASE HealIndex(p) BY <1>24 DEF HealIndex
<1>25. CASE RemoveRedundant(p) BY <1>25 DEF RemoveRedundant
<1>26. CASE CorruptCollision(p) BY <1>26 DEF CorruptCollision
<1>27. CASE QuarantineOutput(p) BY <1>27 DEF QuarantineOutput
<1>28. CASE QuarantineNothing(p) BY <1>28 DEF QuarantineNothing
<1>29. CASE RemoveTmp(p) BY <1>29 DEF RemoveTmp
<1>30. CASE ReleaseLock(p) BY <1>30 DEF ReleaseLock
<1> QED
  BY <1>1, <1>2, <1>3, <1>4, <1>5, <1>6, <1>7, <1>8, <1>9, <1>10, <1>11,
     <1>12, <1>13, <1>14, <1>15, <1>16, <1>17, <1>18, <1>19, <1>20, <1>21,
     <1>22, <1>23, <1>24, <1>25, <1>26, <1>27, <1>28, <1>29, <1>30 DEF Proceed

LEMMA ContainerBreak ==
    ASSUME TypeOK, OwnersHere, ContainerCleaned, NEW p \in Call, Break(p)
    PROVE  ContainerCleaned'
<1> USE ConstantsAssumption
        DEF TypeOK, OwnersHere, ContainerCleaned,
            Go, Strike, Fault, PutStaging, locals, shared, stagingVars,
            containerVars, storeVars, history, Publishing, Staged, Locked, Active,
            Ended
<1>1. CASE MisreadLookup(p) BY <1>1 DEF MisreadLookup
<1>2. CASE AbandonedBusy(p) BY <1>2 DEF AbandonedBusy
<1>3. CASE ContainerFails(p) BY <1>3 DEF ContainerFails
<1>4. CASE FailUnlocked(p) BY <1>4 DEF FailUnlocked
<1>5. CASE FailLocked(p) BY <1>5 DEF FailLocked
<1>6. CASE FailCreated(p) BY <1>6 DEF FailCreated
<1>7. CASE FailRun(p) BY <1>7 DEF FailRun
<1>8. CASE FailStaged(p) BY <1>8 DEF FailStaged
<1>9. CASE FailMoved(p) BY <1>9 DEF FailMoved
<1>10. CASE FailPublished(p) BY <1>10 DEF FailPublished
<1>11. CASE RedundantStays(p) BY <1>11 DEF RedundantStays
<1>12. CASE IndexUnwritten(p) BY <1>12 DEF IndexUnwritten
<1>13. CASE RemovalFails(p) BY <1>13 DEF RemovalFails
<1>14. CASE DropFails(p) BY <1>14 DEF DropFails
<1>15. CASE MisreadCollision(p) BY <1>15 DEF MisreadCollision
<1>16. CASE Crash(p) BY <1>16 DEF Crash
<1> QED
  BY <1>1, <1>2, <1>3, <1>4, <1>5, <1>6, <1>7, <1>8, <1>9, <1>10, <1>11,
     <1>12, <1>13, <1>14, <1>15, <1>16 DEF Break

LEMMA TreeProceed ==
    ASSUME TypeOK, LockExclusive, OwnersHere, TreeOwn, NEW p \in Call,
           Proceed(p)
    PROVE  TreeOwn'
<1> USE ConstantsAssumption
        DEF TypeOK, LockExclusive, OwnersHere, TreeOwn,
            Go, Strike, Fault, PutStaging, locals, shared, stagingVars,
            containerVars, storeVars, history, Publishing, Staged, Locked, Active,
            Ended
<1>1. CASE FindNamespace(p) BY <1>1 DEF FindNamespace
<1>2. CASE CreateNamespace(p) BY <1>2 DEF CreateNamespace
<1>3. CASE NamespaceExists(p) BY <1>3 DEF NamespaceExists
<1>4. CASE AcquireLock(p) BY <1>4 DEF AcquireLock
<1>5. CASE CacheHit(p) BY <1>5 DEF CacheHit
<1>6. CASE CacheMiss(p) BY <1>6 DEF CacheMiss
<1>7. CASE RemoveAbandoned(p) BY <1>7 DEF RemoveAbandoned
<1>8. CASE AbandonedSealed(p) BY <1>8 DEF AbandonedSealed
<1>9. CASE CreateStaging(p) BY <1>9 DEF CreateStaging
<1>10. CASE StartContainer(p) BY <1>10 DEF StartContainer
<1>11. CASE NameTaken(p) BY <1>11 DEF NameTaken
<1>12. CASE ContainerSucceeds(p) BY <1>12 DEF ContainerSucceeds
<1>13. CASE ContainerGone(p) BY <1>13 DEF ContainerGone
<1>14. CASE RemoveContainer(p) BY <1>14 DEF RemoveContainer
<1>15. CASE DropStaging(p) BY <1>15 DEF DropStaging
<1>16. CASE SealedStays(p) BY <1>16 DEF SealedStays
<1>17. CASE ValidateTree(p) BY <1>17 DEF ValidateTree
<1>18. CASE SealTree(p) BY <1>18 DEF SealTree
<1>19. CASE Collide(p) BY <1>19 DEF Collide
<1>20. CASE MoveTree(p) BY <1>20 DEF MoveTree
<1>21. CASE PublishOutput(p) BY <1>21 DEF PublishOutput
<1>22. CASE AppendIndex(p) BY <1>22 DEF AppendIndex
<1>23. CASE VerifiedCollision(p) BY <1>23 DEF VerifiedCollision
<1>24. CASE HealIndex(p) BY <1>24 DEF HealIndex
<1>25. CASE RemoveRedundant(p) BY <1>25 DEF RemoveRedundant
<1>26. CASE CorruptCollision(p) BY <1>26 DEF CorruptCollision
<1>27. CASE QuarantineOutput(p) BY <1>27 DEF QuarantineOutput
<1>28. CASE QuarantineNothing(p) BY <1>28 DEF QuarantineNothing
<1>29. CASE RemoveTmp(p) BY <1>29 DEF RemoveTmp
<1>30. CASE ReleaseLock(p) BY <1>30 DEF ReleaseLock
<1> QED
  BY <1>1, <1>2, <1>3, <1>4, <1>5, <1>6, <1>7, <1>8, <1>9, <1>10, <1>11,
     <1>12, <1>13, <1>14, <1>15, <1>16, <1>17, <1>18, <1>19, <1>20, <1>21,
     <1>22, <1>23, <1>24, <1>25, <1>26, <1>27, <1>28, <1>29, <1>30 DEF Proceed

LEMMA TreeBreak ==
    ASSUME TypeOK, LockExclusive, OwnersHere, TreeOwn, NEW p \in Call,
           Break(p)
    PROVE  TreeOwn'
<1> USE ConstantsAssumption
        DEF TypeOK, LockExclusive, OwnersHere, TreeOwn,
            Go, Strike, Fault, PutStaging, locals, shared, stagingVars,
            containerVars, storeVars, history, Publishing, Staged, Locked, Active,
            Ended
<1>1. CASE MisreadLookup(p) BY <1>1 DEF MisreadLookup
<1>2. CASE AbandonedBusy(p) BY <1>2 DEF AbandonedBusy
<1>3. CASE ContainerFails(p) BY <1>3 DEF ContainerFails
<1>4. CASE FailUnlocked(p) BY <1>4 DEF FailUnlocked
<1>5. CASE FailLocked(p) BY <1>5 DEF FailLocked
<1>6. CASE FailCreated(p) BY <1>6 DEF FailCreated
<1>7. CASE FailRun(p) BY <1>7 DEF FailRun
<1>8. CASE FailStaged(p) BY <1>8 DEF FailStaged
<1>9. CASE FailMoved(p) BY <1>9 DEF FailMoved
<1>10. CASE FailPublished(p) BY <1>10 DEF FailPublished
<1>11. CASE RedundantStays(p) BY <1>11 DEF RedundantStays
<1>12. CASE IndexUnwritten(p) BY <1>12 DEF IndexUnwritten
<1>13. CASE RemovalFails(p) BY <1>13 DEF RemovalFails
<1>14. CASE DropFails(p) BY <1>14 DEF DropFails
<1>15. CASE MisreadCollision(p) BY <1>15 DEF MisreadCollision
<1>16. CASE Crash(p) BY <1>16 DEF Crash
<1> QED
  BY <1>1, <1>2, <1>3, <1>4, <1>5, <1>6, <1>7, <1>8, <1>9, <1>10, <1>11,
     <1>12, <1>13, <1>14, <1>15, <1>16 DEF Break

LEMMA BuiltProceed ==
    ASSUME TypeOK, BuiltHere, NEW p \in Call, Proceed(p)
    PROVE  BuiltHere'
<1> USE ConstantsAssumption
        DEF TypeOK, BuiltHere,
            Go, Strike, Fault, PutStaging, locals, shared, stagingVars,
            containerVars, storeVars, history, Publishing, Staged, Locked, Active,
            Ended
<1>1. CASE FindNamespace(p) BY <1>1 DEF FindNamespace
<1>2. CASE CreateNamespace(p) BY <1>2 DEF CreateNamespace
<1>3. CASE NamespaceExists(p) BY <1>3 DEF NamespaceExists
<1>4. CASE AcquireLock(p) BY <1>4 DEF AcquireLock
<1>5. CASE CacheHit(p) BY <1>5 DEF CacheHit
<1>6. CASE CacheMiss(p) BY <1>6 DEF CacheMiss
<1>7. CASE RemoveAbandoned(p) BY <1>7 DEF RemoveAbandoned
<1>8. CASE AbandonedSealed(p) BY <1>8 DEF AbandonedSealed
<1>9. CASE CreateStaging(p) BY <1>9 DEF CreateStaging
<1>10. CASE StartContainer(p) BY <1>10 DEF StartContainer
<1>11. CASE NameTaken(p) BY <1>11 DEF NameTaken
<1>12. CASE ContainerSucceeds(p) BY <1>12 DEF ContainerSucceeds
<1>13. CASE ContainerGone(p) BY <1>13 DEF ContainerGone
<1>14. CASE RemoveContainer(p) BY <1>14 DEF RemoveContainer
<1>15. CASE DropStaging(p) BY <1>15 DEF DropStaging
<1>16. CASE SealedStays(p) BY <1>16 DEF SealedStays
<1>17. CASE ValidateTree(p) BY <1>17 DEF ValidateTree
<1>18. CASE SealTree(p) BY <1>18 DEF SealTree
<1>19. CASE Collide(p) BY <1>19 DEF Collide
<1>20. CASE MoveTree(p) BY <1>20 DEF MoveTree
<1>21. CASE PublishOutput(p) BY <1>21 DEF PublishOutput
<1>22. CASE AppendIndex(p) BY <1>22 DEF AppendIndex
<1>23. CASE VerifiedCollision(p) BY <1>23 DEF VerifiedCollision
<1>24. CASE HealIndex(p) BY <1>24 DEF HealIndex
<1>25. CASE RemoveRedundant(p) BY <1>25 DEF RemoveRedundant
<1>26. CASE CorruptCollision(p) BY <1>26 DEF CorruptCollision
<1>27. CASE QuarantineOutput(p) BY <1>27 DEF QuarantineOutput
<1>28. CASE QuarantineNothing(p) BY <1>28 DEF QuarantineNothing
<1>29. CASE RemoveTmp(p) BY <1>29 DEF RemoveTmp
<1>30. CASE ReleaseLock(p) BY <1>30 DEF ReleaseLock
<1> QED
  BY <1>1, <1>2, <1>3, <1>4, <1>5, <1>6, <1>7, <1>8, <1>9, <1>10, <1>11,
     <1>12, <1>13, <1>14, <1>15, <1>16, <1>17, <1>18, <1>19, <1>20, <1>21,
     <1>22, <1>23, <1>24, <1>25, <1>26, <1>27, <1>28, <1>29, <1>30 DEF Proceed

LEMMA BuiltBreak ==
    ASSUME TypeOK, BuiltHere, NEW p \in Call, Break(p)
    PROVE  BuiltHere'
<1> USE ConstantsAssumption
        DEF TypeOK, BuiltHere,
            Go, Strike, Fault, PutStaging, locals, shared, stagingVars,
            containerVars, storeVars, history, Publishing, Staged, Locked, Active,
            Ended
<1>1. CASE MisreadLookup(p) BY <1>1 DEF MisreadLookup
<1>2. CASE AbandonedBusy(p) BY <1>2 DEF AbandonedBusy
<1>3. CASE ContainerFails(p) BY <1>3 DEF ContainerFails
<1>4. CASE FailUnlocked(p) BY <1>4 DEF FailUnlocked
<1>5. CASE FailLocked(p) BY <1>5 DEF FailLocked
<1>6. CASE FailCreated(p) BY <1>6 DEF FailCreated
<1>7. CASE FailRun(p) BY <1>7 DEF FailRun
<1>8. CASE FailStaged(p) BY <1>8 DEF FailStaged
<1>9. CASE FailMoved(p) BY <1>9 DEF FailMoved
<1>10. CASE FailPublished(p) BY <1>10 DEF FailPublished
<1>11. CASE RedundantStays(p) BY <1>11 DEF RedundantStays
<1>12. CASE IndexUnwritten(p) BY <1>12 DEF IndexUnwritten
<1>13. CASE RemovalFails(p) BY <1>13 DEF RemovalFails
<1>14. CASE DropFails(p) BY <1>14 DEF DropFails
<1>15. CASE MisreadCollision(p) BY <1>15 DEF MisreadCollision
<1>16. CASE Crash(p) BY <1>16 DEF Crash
<1> QED
  BY <1>1, <1>2, <1>3, <1>4, <1>5, <1>6, <1>7, <1>8, <1>9, <1>10, <1>11,
     <1>12, <1>13, <1>14, <1>15, <1>16 DEF Break

LEMMA MissingProceed ==
    ASSUME TypeOK, LockExclusive, BuiltHere, AssemblesOnlyMissing,
           NEW p \in Call, Proceed(p)
    PROVE  AssemblesOnlyMissing'
<1> USE ConstantsAssumption
        DEF TypeOK, LockExclusive, BuiltHere, AssemblesOnlyMissing, Indexed, Verified,
            Go, Strike, Fault, PutStaging, locals, shared, stagingVars,
            containerVars, storeVars, history, Publishing, Staged, Locked, Active,
            Ended
<1>1. CASE FindNamespace(p) BY <1>1 DEF FindNamespace
<1>2. CASE CreateNamespace(p) BY <1>2 DEF CreateNamespace
<1>3. CASE NamespaceExists(p) BY <1>3 DEF NamespaceExists
<1>4. CASE AcquireLock(p) BY <1>4 DEF AcquireLock
<1>5. CASE CacheHit(p) BY <1>5 DEF CacheHit
<1>6. CASE CacheMiss(p) BY <1>6 DEF CacheMiss
<1>7. CASE RemoveAbandoned(p) BY <1>7 DEF RemoveAbandoned
<1>8. CASE AbandonedSealed(p) BY <1>8 DEF AbandonedSealed
<1>9. CASE CreateStaging(p) BY <1>9 DEF CreateStaging
<1>10. CASE StartContainer(p) BY <1>10 DEF StartContainer
<1>11. CASE NameTaken(p) BY <1>11 DEF NameTaken
<1>12. CASE ContainerSucceeds(p) BY <1>12 DEF ContainerSucceeds
<1>13. CASE ContainerGone(p) BY <1>13 DEF ContainerGone
<1>14. CASE RemoveContainer(p) BY <1>14 DEF RemoveContainer
<1>15. CASE DropStaging(p) BY <1>15 DEF DropStaging
<1>16. CASE SealedStays(p) BY <1>16 DEF SealedStays
<1>17. CASE ValidateTree(p) BY <1>17 DEF ValidateTree
<1>18. CASE SealTree(p) BY <1>18 DEF SealTree
<1>19. CASE Collide(p) BY <1>19 DEF Collide
<1>20. CASE MoveTree(p) BY <1>20 DEF MoveTree
<1>21. CASE PublishOutput(p) BY <1>21 DEF PublishOutput
<1>22. CASE AppendIndex(p) BY <1>22 DEF AppendIndex
<1>23. CASE VerifiedCollision(p) BY <1>23 DEF VerifiedCollision
<1>24. CASE HealIndex(p) BY <1>24 DEF HealIndex
<1>25. CASE RemoveRedundant(p) BY <1>25 DEF RemoveRedundant
<1>26. CASE CorruptCollision(p) BY <1>26 DEF CorruptCollision
<1>27. CASE QuarantineOutput(p) BY <1>27 DEF QuarantineOutput
<1>28. CASE QuarantineNothing(p) BY <1>28 DEF QuarantineNothing
<1>29. CASE RemoveTmp(p) BY <1>29 DEF RemoveTmp
<1>30. CASE ReleaseLock(p) BY <1>30 DEF ReleaseLock
<1> QED
  BY <1>1, <1>2, <1>3, <1>4, <1>5, <1>6, <1>7, <1>8, <1>9, <1>10, <1>11,
     <1>12, <1>13, <1>14, <1>15, <1>16, <1>17, <1>18, <1>19, <1>20, <1>21,
     <1>22, <1>23, <1>24, <1>25, <1>26, <1>27, <1>28, <1>29, <1>30 DEF Proceed

LEMMA MissingBreak ==
    ASSUME TypeOK, LockExclusive, BuiltHere, AssemblesOnlyMissing,
           NEW p \in Call, Break(p)
    PROVE  AssemblesOnlyMissing'
<1> USE ConstantsAssumption
        DEF TypeOK, LockExclusive, BuiltHere, AssemblesOnlyMissing, Indexed, Verified,
            Go, Strike, Fault, PutStaging, locals, shared, stagingVars,
            containerVars, storeVars, history, Publishing, Staged, Locked, Active,
            Ended
<1>1. CASE MisreadLookup(p) BY <1>1 DEF MisreadLookup
<1>2. CASE AbandonedBusy(p) BY <1>2 DEF AbandonedBusy
<1>3. CASE ContainerFails(p) BY <1>3 DEF ContainerFails
<1>4. CASE FailUnlocked(p) BY <1>4 DEF FailUnlocked
<1>5. CASE FailLocked(p) BY <1>5 DEF FailLocked
<1>6. CASE FailCreated(p) BY <1>6 DEF FailCreated
<1>7. CASE FailRun(p) BY <1>7 DEF FailRun
<1>8. CASE FailStaged(p) BY <1>8 DEF FailStaged
<1>9. CASE FailMoved(p) BY <1>9 DEF FailMoved
<1>10. CASE FailPublished(p) BY <1>10 DEF FailPublished
<1>11. CASE RedundantStays(p) BY <1>11 DEF RedundantStays
<1>12. CASE IndexUnwritten(p) BY <1>12 DEF IndexUnwritten
<1>13. CASE RemovalFails(p) BY <1>13 DEF RemovalFails
<1>14. CASE DropFails(p) BY <1>14 DEF DropFails
<1>15. CASE MisreadCollision(p) BY <1>15 DEF MisreadCollision
<1>16. CASE Crash(p) BY <1>16 DEF Crash
<1> QED
  BY <1>1, <1>2, <1>3, <1>4, <1>5, <1>6, <1>7, <1>8, <1>9, <1>10, <1>11,
     <1>12, <1>13, <1>14, <1>15, <1>16 DEF Break

LEMMA StandsProceed ==
    ASSUME TypeOK, LockExclusive, BuiltHere, OutputStands, NEW p \in Call,
           Proceed(p)
    PROVE  OutputStands'
<1> USE ConstantsAssumption
        DEF TypeOK, LockExclusive, BuiltHere, OutputStands, Verified,
            Go, Strike, Fault, PutStaging, locals, shared, stagingVars,
            containerVars, storeVars, history, Publishing, Staged, Locked, Active,
            Ended
<1>1. CASE FindNamespace(p) BY <1>1 DEF FindNamespace
<1>2. CASE CreateNamespace(p) BY <1>2 DEF CreateNamespace
<1>3. CASE NamespaceExists(p) BY <1>3 DEF NamespaceExists
<1>4. CASE AcquireLock(p) BY <1>4 DEF AcquireLock
<1>5. CASE CacheHit(p) BY <1>5 DEF CacheHit
<1>6. CASE CacheMiss(p) BY <1>6 DEF CacheMiss
<1>7. CASE RemoveAbandoned(p) BY <1>7 DEF RemoveAbandoned
<1>8. CASE AbandonedSealed(p) BY <1>8 DEF AbandonedSealed
<1>9. CASE CreateStaging(p) BY <1>9 DEF CreateStaging
<1>10. CASE StartContainer(p) BY <1>10 DEF StartContainer
<1>11. CASE NameTaken(p) BY <1>11 DEF NameTaken
<1>12. CASE ContainerSucceeds(p) BY <1>12 DEF ContainerSucceeds
<1>13. CASE ContainerGone(p) BY <1>13 DEF ContainerGone
<1>14. CASE RemoveContainer(p) BY <1>14 DEF RemoveContainer
<1>15. CASE DropStaging(p) BY <1>15 DEF DropStaging
<1>16. CASE SealedStays(p) BY <1>16 DEF SealedStays
<1>17. CASE ValidateTree(p) BY <1>17 DEF ValidateTree
<1>18. CASE SealTree(p) BY <1>18 DEF SealTree
<1>19. CASE Collide(p) BY <1>19 DEF Collide
<1>20. CASE MoveTree(p) BY <1>20 DEF MoveTree
<1>21. CASE PublishOutput(p) BY <1>21 DEF PublishOutput
<1>22. CASE AppendIndex(p) BY <1>22 DEF AppendIndex
<1>23. CASE VerifiedCollision(p) BY <1>23 DEF VerifiedCollision
<1>24. CASE HealIndex(p) BY <1>24 DEF HealIndex
<1>25. CASE RemoveRedundant(p) BY <1>25 DEF RemoveRedundant
<1>26. CASE CorruptCollision(p) BY <1>26 DEF CorruptCollision
<1>27. CASE QuarantineOutput(p) BY <1>27 DEF QuarantineOutput
<1>28. CASE QuarantineNothing(p) BY <1>28 DEF QuarantineNothing
<1>29. CASE RemoveTmp(p) BY <1>29 DEF RemoveTmp
<1>30. CASE ReleaseLock(p) BY <1>30 DEF ReleaseLock
<1> QED
  BY <1>1, <1>2, <1>3, <1>4, <1>5, <1>6, <1>7, <1>8, <1>9, <1>10, <1>11,
     <1>12, <1>13, <1>14, <1>15, <1>16, <1>17, <1>18, <1>19, <1>20, <1>21,
     <1>22, <1>23, <1>24, <1>25, <1>26, <1>27, <1>28, <1>29, <1>30 DEF Proceed

LEMMA StandsBreak ==
    ASSUME TypeOK, LockExclusive, BuiltHere, OutputStands, NEW p \in Call,
           Break(p)
    PROVE  OutputStands'
<1> USE ConstantsAssumption
        DEF TypeOK, LockExclusive, BuiltHere, OutputStands, Verified,
            Go, Strike, Fault, PutStaging, locals, shared, stagingVars,
            containerVars, storeVars, history, Publishing, Staged, Locked, Active,
            Ended
<1>1. CASE MisreadLookup(p) BY <1>1 DEF MisreadLookup
<1>2. CASE AbandonedBusy(p) BY <1>2 DEF AbandonedBusy
<1>3. CASE ContainerFails(p) BY <1>3 DEF ContainerFails
<1>4. CASE FailUnlocked(p) BY <1>4 DEF FailUnlocked
<1>5. CASE FailLocked(p) BY <1>5 DEF FailLocked
<1>6. CASE FailCreated(p) BY <1>6 DEF FailCreated
<1>7. CASE FailRun(p) BY <1>7 DEF FailRun
<1>8. CASE FailStaged(p) BY <1>8 DEF FailStaged
<1>9. CASE FailMoved(p) BY <1>9 DEF FailMoved
<1>10. CASE FailPublished(p) BY <1>10 DEF FailPublished
<1>11. CASE RedundantStays(p) BY <1>11 DEF RedundantStays
<1>12. CASE IndexUnwritten(p) BY <1>12 DEF IndexUnwritten
<1>13. CASE RemovalFails(p) BY <1>13 DEF RemovalFails
<1>14. CASE DropFails(p) BY <1>14 DEF DropFails
<1>15. CASE MisreadCollision(p) BY <1>15 DEF MisreadCollision
<1>16. CASE Crash(p) BY <1>16 DEF Crash
<1> QED
  BY <1>1, <1>2, <1>3, <1>4, <1>5, <1>6, <1>7, <1>8, <1>9, <1>10, <1>11,
     <1>12, <1>13, <1>14, <1>15, <1>16 DEF Break

LEMMA AnswerProceed ==
    ASSUME TypeOK, AnswersOnce, NEW p \in Call, Proceed(p)
    PROVE  AnswersOnce'
<1> USE ConstantsAssumption
        DEF TypeOK, AnswersOnce, Indexed,
            Go, Strike, Fault, PutStaging, locals, shared, stagingVars,
            containerVars, storeVars, history, Publishing, Staged, Locked, Active,
            Ended
<1>1. CASE FindNamespace(p) BY <1>1 DEF FindNamespace
<1>2. CASE CreateNamespace(p) BY <1>2 DEF CreateNamespace
<1>3. CASE NamespaceExists(p) BY <1>3 DEF NamespaceExists
<1>4. CASE AcquireLock(p) BY <1>4 DEF AcquireLock
<1>5. CASE CacheHit(p) BY <1>5 DEF CacheHit
<1>6. CASE CacheMiss(p) BY <1>6 DEF CacheMiss
<1>7. CASE RemoveAbandoned(p) BY <1>7 DEF RemoveAbandoned
<1>8. CASE AbandonedSealed(p) BY <1>8 DEF AbandonedSealed
<1>9. CASE CreateStaging(p) BY <1>9 DEF CreateStaging
<1>10. CASE StartContainer(p) BY <1>10 DEF StartContainer
<1>11. CASE NameTaken(p) BY <1>11 DEF NameTaken
<1>12. CASE ContainerSucceeds(p) BY <1>12 DEF ContainerSucceeds
<1>13. CASE ContainerGone(p) BY <1>13 DEF ContainerGone
<1>14. CASE RemoveContainer(p) BY <1>14 DEF RemoveContainer
<1>15. CASE DropStaging(p) BY <1>15 DEF DropStaging
<1>16. CASE SealedStays(p) BY <1>16 DEF SealedStays
<1>17. CASE ValidateTree(p) BY <1>17 DEF ValidateTree
<1>18. CASE SealTree(p) BY <1>18 DEF SealTree
<1>19. CASE Collide(p) BY <1>19 DEF Collide
<1>20. CASE MoveTree(p) BY <1>20 DEF MoveTree
<1>21. CASE PublishOutput(p) BY <1>21 DEF PublishOutput
<1>22. CASE AppendIndex(p) BY <1>22 DEF AppendIndex
<1>23. CASE VerifiedCollision(p) BY <1>23 DEF VerifiedCollision
<1>24. CASE HealIndex(p) BY <1>24 DEF HealIndex
<1>25. CASE RemoveRedundant(p) BY <1>25 DEF RemoveRedundant
<1>26. CASE CorruptCollision(p) BY <1>26 DEF CorruptCollision
<1>27. CASE QuarantineOutput(p) BY <1>27 DEF QuarantineOutput
<1>28. CASE QuarantineNothing(p) BY <1>28 DEF QuarantineNothing
<1>29. CASE RemoveTmp(p) BY <1>29 DEF RemoveTmp
<1>30. CASE ReleaseLock(p) BY <1>30 DEF ReleaseLock
<1> QED
  BY <1>1, <1>2, <1>3, <1>4, <1>5, <1>6, <1>7, <1>8, <1>9, <1>10, <1>11,
     <1>12, <1>13, <1>14, <1>15, <1>16, <1>17, <1>18, <1>19, <1>20, <1>21,
     <1>22, <1>23, <1>24, <1>25, <1>26, <1>27, <1>28, <1>29, <1>30 DEF Proceed

LEMMA AnswerBreak ==
    ASSUME TypeOK, AnswersOnce, NEW p \in Call, Break(p)
    PROVE  AnswersOnce'
<1> USE ConstantsAssumption
        DEF TypeOK, AnswersOnce, Indexed,
            Go, Strike, Fault, PutStaging, locals, shared, stagingVars,
            containerVars, storeVars, history, Publishing, Staged, Locked, Active,
            Ended
<1>1. CASE MisreadLookup(p) BY <1>1 DEF MisreadLookup
<1>2. CASE AbandonedBusy(p) BY <1>2 DEF AbandonedBusy
<1>3. CASE ContainerFails(p) BY <1>3 DEF ContainerFails
<1>4. CASE FailUnlocked(p) BY <1>4 DEF FailUnlocked
<1>5. CASE FailLocked(p) BY <1>5 DEF FailLocked
<1>6. CASE FailCreated(p) BY <1>6 DEF FailCreated
<1>7. CASE FailRun(p) BY <1>7 DEF FailRun
<1>8. CASE FailStaged(p) BY <1>8 DEF FailStaged
<1>9. CASE FailMoved(p) BY <1>9 DEF FailMoved
<1>10. CASE FailPublished(p) BY <1>10 DEF FailPublished
<1>11. CASE RedundantStays(p) BY <1>11 DEF RedundantStays
<1>12. CASE IndexUnwritten(p) BY <1>12 DEF IndexUnwritten
<1>13. CASE RemovalFails(p) BY <1>13 DEF RemovalFails
<1>14. CASE DropFails(p) BY <1>14 DEF DropFails
<1>15. CASE MisreadCollision(p) BY <1>15 DEF MisreadCollision
<1>16. CASE Crash(p) BY <1>16 DEF Crash
<1> QED
  BY <1>1, <1>2, <1>3, <1>4, <1>5, <1>6, <1>7, <1>8, <1>9, <1>10, <1>11,
     <1>12, <1>13, <1>14, <1>15, <1>16 DEF Break

LEMMA InvOrphan ==
    ASSUME Inv, NEW n \in Name, OrphanEnds(n)
    PROVE  Inv'
<1> USE ConstantsAssumption
        DEF Inv, OrphanEnds, Indexed, Verified,
            Go, Strike, Fault, PutStaging, locals, shared, stagingVars,
            containerVars, storeVars, history, Publishing, Staged, Locked, Active,
            Ended
<1>1. TypeOK' BY DEF TypeOK, BuiltHere
<1>2. LockExclusive' BY DEF TypeOK, LockExclusive
<1>3. OwnersHere' BY DEF TypeOK, OwnersHere
<1>4. StagingCleaned' BY DEF TypeOK, OwnersHere, StagingCleaned
<1>5. ContainerCleaned' BY DEF TypeOK, OwnersHere, ContainerCleaned
<1>6. TreeOwn' BY DEF TypeOK, LockExclusive, OwnersHere, TreeOwn
<1>7. BuiltHere' BY DEF TypeOK, BuiltHere
<1>8. AssemblesOnlyMissing' BY DEF TypeOK, LockExclusive, BuiltHere, AssemblesOnlyMissing
<1>9. OutputStands' BY DEF TypeOK, LockExclusive, BuiltHere, OutputStands
<1>10. AnswersOnce' BY DEF TypeOK, AnswersOnce
<1> QED
  BY <1>1, <1>2, <1>3, <1>4, <1>5, <1>6, <1>7, <1>8, <1>9, <1>10 DEF Inv

LEMMA InvDamageOutput ==
    ASSUME Inv, NEW o \in Output, DamageOutput(o)
    PROVE  Inv'
<1> USE ConstantsAssumption
        DEF Inv, DamageOutput, Indexed, Verified,
            Go, Strike, Fault, PutStaging, locals, shared, stagingVars,
            containerVars, storeVars, history, Publishing, Staged, Locked, Active,
            Ended
<1>1. TypeOK' BY DEF TypeOK, BuiltHere
<1>2. LockExclusive' BY DEF TypeOK, LockExclusive
<1>3. OwnersHere' BY DEF TypeOK, OwnersHere
<1>4. StagingCleaned' BY DEF TypeOK, OwnersHere, StagingCleaned
<1>5. ContainerCleaned' BY DEF TypeOK, OwnersHere, ContainerCleaned
<1>6. TreeOwn' BY DEF TypeOK, LockExclusive, OwnersHere, TreeOwn
<1>7. BuiltHere' BY DEF TypeOK, BuiltHere
<1>8. AssemblesOnlyMissing' BY DEF TypeOK, LockExclusive, BuiltHere, AssemblesOnlyMissing
<1>9. OutputStands' BY DEF TypeOK, LockExclusive, BuiltHere, OutputStands
<1>10. AnswersOnce' BY DEF TypeOK, AnswersOnce
<1> QED
  BY <1>1, <1>2, <1>3, <1>4, <1>5, <1>6, <1>7, <1>8, <1>9, <1>10 DEF Inv

LEMMA InvDamageIndex ==
    ASSUME Inv, NEW l \in Place, DamageIndex(l)
    PROVE  Inv'
<1> USE ConstantsAssumption
        DEF Inv, DamageIndex, Indexed, Verified,
            Go, Strike, Fault, PutStaging, locals, shared, stagingVars,
            containerVars, storeVars, history, Publishing, Staged, Locked, Active,
            Ended
<1>1. TypeOK' BY DEF TypeOK, BuiltHere
<1>2. LockExclusive' BY DEF TypeOK, LockExclusive
<1>3. OwnersHere' BY DEF TypeOK, OwnersHere
<1>4. StagingCleaned' BY DEF TypeOK, OwnersHere, StagingCleaned
<1>5. ContainerCleaned' BY DEF TypeOK, OwnersHere, ContainerCleaned
<1>6. TreeOwn' BY DEF TypeOK, LockExclusive, OwnersHere, TreeOwn
<1>7. BuiltHere' BY DEF TypeOK, BuiltHere
<1>8. AssemblesOnlyMissing' BY DEF TypeOK, LockExclusive, BuiltHere, AssemblesOnlyMissing
<1>9. OutputStands' BY DEF TypeOK, LockExclusive, BuiltHere, OutputStands
<1>10. AnswersOnce' BY DEF TypeOK, AnswersOnce
<1> QED
  BY <1>1, <1>2, <1>3, <1>4, <1>5, <1>6, <1>7, <1>8, <1>9, <1>10 DEF Inv

LEMMA InvNext == Inv /\ [Next]_vars => Inv'
<1> SUFFICES ASSUME Inv, [Next]_vars PROVE Inv'
  OBVIOUS
<1>1. ASSUME NEW p \in Call, Proceed(p) PROVE Inv'
  BY <1>1, TypeProceed, LockProceed, OwnerProceed, StagingProceed,
     ContainerProceed, TreeProceed, BuiltProceed, MissingProceed,
     StandsProceed, AnswerProceed DEF Inv
<1>2. ASSUME NEW p \in Call, Break(p) PROVE Inv'
  BY <1>2, TypeBreak, LockBreak, OwnerBreak, StagingBreak, ContainerBreak,
     TreeBreak, BuiltBreak, MissingBreak, StandsBreak, AnswerBreak DEF Inv
<1> QED
  BY <1>1, <1>2, InvOrphan, InvDamageOutput, InvDamageIndex, InvStutter DEF Next

THEOREM Invariance == Spec => []Inv
<1> QED
  BY InvInit, InvNext, PTL DEF Spec

(* Every variable keeps its type. *)
THEOREM TypeCorrect == Spec => []TypeOK
<1>1. Inv => TypeOK
  BY DEF Inv
<1> QED
  BY <1>1, Invariance, PTL

(* Lookup, assembly, validation and publication of a place happen under    *)
(* its lock, and the lock is held for nothing else: through every error,   *)
(* interrupt and crash.                                                    *)
THEOREM CallsExclusive == Spec => []LockExclusive
<1>1. Inv => LockExclusive
  BY DEF Inv
<1> QED
  BY <1>1, Invariance, PTL

(* A call checks, seals and publishes a tree of its own in which nobody    *)
(* writes any more, whatever an earlier call and its container left.       *)
THEOREM TreesPrivate == Spec => []TreePrivate
<1>1. ASSUME Inv PROVE TreePrivate
  <2>1. ASSUME NEW p \in Call, pc[p] \in Publishing
        PROVE  staging[At[p]] = p /\ ~Busy(At[p])
    BY <1>1, <2>1 DEF Inv, TreeOwn, Busy
  <2> QED
    BY <2>1 DEF TreePrivate
<1> QED
  BY <1>1, Invariance, PTL

(* No call assembles what the index and the outputs could have given it.   *)
THEOREM NoNeedlessAssembly == Spec => []AssemblesOnlyMissing
<1>1. Inv => AssemblesOnlyMissing
  BY DEF Inv
<1> QED
  BY <1>1, Invariance, PTL

(* A call that is over leaves no staging behind, unless it was killed or   *)
(* its clean-up failed.                                                    *)
THEOREM NoStagingLeft == Spec => []StagingCleaned
<1>1. Inv => StagingCleaned
  BY DEF Inv
<1> QED
  BY <1>1, Invariance, PTL

(* Nor does it leave its container running, with the same exceptions.      *)
THEOREM NoContainerLeft == Spec => []ContainerCleaned
<1>1. Inv => ContainerCleaned
  BY DEF Inv
<1> QED
  BY <1>1, Invariance, PTL

-----------------------------------------------------------------------------
(* The store: every step is a step of EnvironmentStore or changes nothing  *)
(* there.                                                                  *)

Valid == {o \in Output : output[o] = "valid"}

StoreStep == Store!Next \/ UNCHANGED Store!vars

LEMMA StoreFrame ==
    ASSUME output' = output, returned' = returned, damaged' = damaged,
           misread' = misread
    PROVE  StoreStep
BY DEF StoreStep, Store!vars

(* A call answers with an output that is valid or lost. *)
LEMMA StepAnswers ==
    ASSUME Inv, NEW p \in Call, NEW o \in Output,
           returned[p] = NoOutput,
           output[o] = "valid" \/ o \in damaged \cup misread,
           returned' = [returned EXCEPT ![p] = o],
           output' = output, damaged' = damaged, misread' = misread
    PROVE  StoreStep
<1>1. PICK q \in Call : q = p
  OBVIOUS
<1>2. PICK x \in Output : x = o
  OBVIOUS
<1>3. Store!Answer(q, x)
  BY <1>1, <1>2 DEF Store!Answer
<1> QED
  BY <1>3 DEF StoreStep, Store!Next

LEMMA StepOfProceed ==
    ASSUME Inv, NEW p \in Call, Proceed(p)
    PROVE  StoreStep
<1> USE DEF locals, shared, stagingVars, containerVars, storeVars, history
<1>1. CASE CacheHit(p)
  <2>1. returned[p] = NoOutput
    BY <1>1 DEF CacheHit, Go, Inv, AnswersOnce, Ended
  <2>2. PICK o \in Output : /\ output[o] = "valid"
                            /\ returned' = [returned EXCEPT ![p] = o]
    BY <1>1 DEF CacheHit, Indexed, Verified, Inv, TypeOK
  <2> QED
    BY <1>1, <2>1, <2>2, StepAnswers DEF CacheHit
<1>2. CASE AppendIndex(p) \/ RemoveRedundant(p)
  <2>1. pc[p] \in {"index", "redundant"}
    BY <1>2 DEF AppendIndex, RemoveRedundant, Go
  <2>2. returned[p] = NoOutput
    BY <2>1 DEF Inv, AnswersOnce, Ended
  <2>3. /\ built[p] \in Output
        /\ output[built[p]] = "valid" \/ built[p] \in damaged \cup misread
    BY <2>1 DEF Inv, BuiltHere, OutputStands
  <2> QED
    BY <1>2, <2>2, <2>3, StepAnswers DEF AppendIndex, RemoveRedundant
<1>3. CASE PublishOutput(p)
  <2>1. built[p] \in Output /\ output[built[p]] = "absent"
    BY <1>3 DEF PublishOutput, Go, Inv, BuiltHere, OutputStands
  <2>2. /\ output' = [output EXCEPT ![built[p]] = "valid"]
        /\ damaged' = damaged \ {built[p]}
        /\ misread' = misread \ {built[p]}
        /\ returned' = returned
    BY <1>3 DEF PublishOutput
  <2>3. PICK x \in Output : x = built[p]
    BY <2>1
  <2>4. Valid' = Valid \cup {x} /\ x \notin Valid
    BY <2>1, <2>2, <2>3 DEF Valid, Inv, TypeOK
  <2>5. Store!Commit(x)
    BY <2>2, <2>3, <2>4 DEF Store!Commit, Valid
  <2> QED
    BY <2>5 DEF StoreStep, Store!Next
<1>4. CASE QuarantineOutput(p)
  <2>1. /\ built[p] \in Output
        /\ output[built[p]] # "valid" \/ built[p] \in misread
    BY <1>4 DEF QuarantineOutput, Go, Inv, BuiltHere, OutputStands, Publishing
  <2>2. /\ output' = [output EXCEPT ![built[p]] = "absent"]
        /\ damaged' = damaged /\ misread' = misread /\ returned' = returned
    BY <1>4 DEF QuarantineOutput
  <2>3. PICK x \in Output : x = built[p]
    BY <2>1
  <2>4. Valid' = Valid \ {x}
    BY <2>2, <2>3 DEF Valid, Inv, TypeOK
  <2>5. CASE x \in misread
    <3>1. Store!Retire(x)
      BY <2>2, <2>4, <2>5 DEF Store!Retire, Valid
    <3> QED
      BY <3>1 DEF StoreStep, Store!Next
  <2>6. CASE x \notin Valid
    BY <2>2, <2>4, <2>6 DEF StoreStep, Store!vars, Valid
  <2> QED
    BY <2>1, <2>3, <2>5, <2>6 DEF Valid
<1>5. CASE /\ output' = output /\ returned' = returned
           /\ damaged' = damaged /\ misread' = misread
  BY <1>5, StoreFrame
<1> QED
  BY <1>1, <1>2, <1>3, <1>4, <1>5
     DEF Proceed, Strike, FindNamespace, CreateNamespace, NamespaceExists,
         AcquireLock, CacheMiss, RemoveAbandoned, AbandonedSealed,
         CreateStaging, StartContainer, NameTaken, ContainerSucceeds,
         ContainerGone, RemoveContainer, DropStaging, SealedStays,
         ValidateTree, SealTree, Collide, MoveTree, VerifiedCollision,
         HealIndex, CorruptCollision, QuarantineNothing, RemoveTmp,
         ReleaseLock

LEMMA StepOfBreak ==
    ASSUME Inv, NEW p \in Call, Break(p)
    PROVE  StoreStep
<1> USE DEF locals, shared, stagingVars, containerVars, storeVars, history
<1>1. CASE IndexUnwritten(p)
  <2>1. CASE returned' = returned
    BY <1>1, <2>1, StoreFrame DEF IndexUnwritten
  <2>2. CASE pc[p] = "index" /\ returned' = [returned EXCEPT ![p] = built[p]]
    <3>1. returned[p] = NoOutput
      BY <2>2 DEF Inv, AnswersOnce, Ended
    <3>2. /\ built[p] \in Output
          /\ output[built[p]] = "valid" \/ built[p] \in damaged \cup misread
      BY <2>2 DEF Inv, BuiltHere, OutputStands
    <3> QED
      BY <1>1, <2>2, <3>1, <3>2, StepAnswers DEF IndexUnwritten
  <2> QED
    BY <1>1, <2>1, <2>2 DEF IndexUnwritten, Go
<1>2. CASE MisreadCollision(p)
  <2>1. built[p] \in Output
    BY <1>2 DEF MisreadCollision, Go, Inv, BuiltHere, Publishing
  <2>2. PICK x \in Output : x = built[p]
    BY <2>1
  <2>3. Store!Lose(x)
    BY <1>2, <2>2 DEF MisreadCollision, Store!Lose
  <2> QED
    BY <2>3 DEF StoreStep, Store!Next
<1>3. CASE /\ output' = output /\ returned' = returned
           /\ damaged' = damaged /\ misread' = misread
  BY <1>3, StoreFrame
<1> QED
  BY <1>1, <1>2, <1>3
     DEF Break, Strike, MisreadLookup, AbandonedBusy, ContainerFails,
         FailUnlocked, FailLocked, FailCreated, FailRun, FailStaged, FailMoved,
         FailPublished, RedundantStays, RemovalFails, DropFails, Crash

LEMMA StepOfDamage ==
    ASSUME Inv, NEW o \in Output, DamageOutput(o)
    PROVE  StoreStep
<1>1. PICK bad \in {"absent", "corrupt"} : output' = [output EXCEPT ![o] = bad]
  BY DEF DamageOutput
<1>2. Valid' = Valid \ {o}
  BY <1>1 DEF Valid, Inv, TypeOK
<1>3. PICK x \in Output : x = o
  OBVIOUS
<1>4. Store!Lose(x)
  BY <1>2, <1>3 DEF Store!Lose, Valid, DamageOutput, locals
<1> QED
  BY <1>4 DEF StoreStep, Store!Next

LEMMA StepOfNext == Inv /\ [Next]_vars => [Store!Next]_Store!vars
<1> SUFFICES ASSUME Inv, [Next]_vars PROVE StoreStep
  BY DEF StoreStep
<1>1. ASSUME NEW n \in Name, OrphanEnds(n) PROVE StoreStep
  BY <1>1, StoreFrame DEF OrphanEnds, locals, storeVars, history
<1>2. ASSUME NEW l \in Place, DamageIndex(l) PROVE StoreStep
  BY <1>2, StoreFrame DEF DamageIndex, locals
<1>3. CASE UNCHANGED vars
  BY <1>3, StoreFrame DEF vars, locals, shared, storeVars, history
<1> QED
  BY <1>1, <1>2, <1>3, StepOfProceed, StepOfBreak, StepOfDamage DEF Next

LEMMA StoreInit == Init => Store!Init
BY DEF Init, Store!Init

(* The assembler keeps the promise of EnvironmentStore: environments are   *)
(* committed whole and stay, and every answer is a committed one.          *)
THEOREM StoreImplemented == Spec => ImplementsStore
<1> QED
  BY StoreInit, StepOfNext, Invariance, PTL DEF Spec, Store!Spec, ImplementsStore

-----------------------------------------------------------------------------

Kept ==
    \A o \in Output :
        output[o] = "valid" /\ output'[o] # "valid" =>
           o \in damaged' \cup misread

LEMMA KeptNext == Inv /\ [Next]_vars => Kept
<1> SUFFICES ASSUME Inv, [Next]_vars PROVE Kept
  OBVIOUS
<1> USE DEF Kept, locals, shared, stagingVars, containerVars, storeVars,
            history
<1>1. ASSUME NEW p \in Call, QuarantineOutput(p) PROVE Kept
  <2>1. output[built[p]] # "valid" \/ built[p] \in misread
    BY <1>1 DEF QuarantineOutput, Go, Inv, OutputStands
  <2> QED
    BY <1>1, <2>1 DEF QuarantineOutput, Inv, TypeOK
<1>2. ASSUME NEW p \in Call, PublishOutput(p) PROVE Kept
  BY <1>2 DEF PublishOutput, Inv, TypeOK
<1>3. ASSUME NEW o \in Output, DamageOutput(o) PROVE Kept
  BY <1>3 DEF DamageOutput, Inv, TypeOK
<1>4. CASE output' = output
  BY <1>4
<1>5. ASSUME NEW p \in Call, Proceed(p) PROVE Kept
  BY <1>1, <1>2, <1>4, <1>5
     DEF Proceed, FindNamespace, CreateNamespace, NamespaceExists,
         AcquireLock, CacheHit, CacheMiss, RemoveAbandoned, AbandonedSealed,
         CreateStaging, StartContainer, NameTaken, ContainerSucceeds,
         ContainerGone, RemoveContainer, DropStaging, SealedStays,
         ValidateTree, SealTree, Collide, MoveTree, AppendIndex,
         VerifiedCollision, HealIndex, RemoveRedundant, CorruptCollision,
         QuarantineNothing, RemoveTmp, ReleaseLock
<1>6. ASSUME NEW p \in Call, Break(p) PROVE Kept
  BY <1>4, <1>6
     DEF Break, IndexUnwritten, MisreadCollision, MisreadLookup,
         AbandonedBusy, ContainerFails, FailUnlocked, FailLocked, FailCreated,
         FailRun, FailStaged, FailMoved, FailPublished, RedundantStays,
         RemovalFails, DropFails, Crash
<1> QED
  BY <1>3, <1>4, <1>5, <1>6 DEF Next, OrphanEnds, DamageIndex, vars

(* No failure, collision or other call takes a committed environment away: *)
(* only damage from outside and read errors do.                            *)
THEOREM CommittedStays == Spec => CommittedKept
<1>1. Inv /\ [Next]_vars => [Kept]_vars
  BY KeptNext
<1>2. Spec => [][Kept]_vars
  BY <1>1, Invariance, PTL DEF Spec
<1> QED
  BY <1>2, PTL DEF CommittedKept, Kept
=============================================================================
