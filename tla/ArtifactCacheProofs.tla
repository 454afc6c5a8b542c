-------------------------- MODULE ArtifactCacheProofs --------------------------
(***************************************************************************)
(* Safety of ArtifactCache for any launches, artifacts and selections.     *)
(***************************************************************************)
EXTENDS ArtifactCache, TLAPS

(* A launch that waits for a lock, or holds one, knows its identity. *)
TargetKnown ==
    \A p \in Process : pc[p] \in Locked \cup {"wait"} => target[p] \in Blob

(* What a launch is about to unlink it has found missing, or misread. *)
QuarantineJustified ==
    \A p \in Process :
        pc[p] = "quarantine" =>
            blob[target[p]] # "valid" \/ target[p] \in disturbed

(* Only an error leads to the discarding of a published entry. *)
DiscardJustified == \A p \in Process : pc[p] = "discard" => failing[p]

Inv ==
    /\ TypeOK
    /\ TargetKnown
    /\ IdentityExclusive
    /\ DownloadsOnlyMissing
    /\ QuarantineJustified
    /\ DiscardJustified
    /\ WorkspacesCleaned

-----------------------------------------------------------------------------

LEMMA InvInit == Init => Inv
BY ConstantsAssumption
   DEF Init, Inv, TypeOK, TargetKnown, IdentityExclusive, DownloadsOnlyMissing,
       QuarantineJustified, DiscardJustified, WorkspacesCleaned, Locked,
       InWorkspace, Active, Ended

LEMMA InvStutter == Inv /\ UNCHANGED vars => Inv'
BY DEF vars, locals, cacheVars, workVars, Inv, TypeOK, TargetKnown,
       IdentityExclusive, DownloadsOnlyMissing, QuarantineJustified,
       DiscardJustified, WorkspacesCleaned

LEMMA TypeProceed ==
    ASSUME TypeOK, TargetKnown,
           NEW p \in Process, Proceed(p)
    PROVE  TypeOK'
<1> USE ConstantsAssumption
        DEF TypeOK, TargetKnown, Go, Raise, Put, locals, cacheVars, workVars,
            Locked, InWorkspace, Active, Ended
<1>1. CASE FastHit(p) BY <1>1 DEF FastHit
<1>2. CASE Miss(p) BY <1>2 DEF Miss
<1>3. CASE Resolve(p) BY <1>3 DEF Resolve
<1>4. CASE Launch(p) BY <1>4 DEF Launch
<1>5. CASE AcquireIdentity(p) BY <1>5 DEF AcquireIdentity
<1>6. CASE RecheckHit(p) BY <1>6 DEF RecheckHit
<1>7. CASE RecheckMiss(p) BY <1>7 DEF RecheckMiss
<1>8. CASE Quarantine(p) BY <1>8 DEF Quarantine
<1>9. CASE FindDirectory(p) BY <1>9 DEF FindDirectory
<1>10. CASE CreateDirectory(p) BY <1>10 DEF CreateDirectory
<1>11. CASE DirectoryExists(p) BY <1>11 DEF DirectoryExists
<1>12. CASE CreateWorkspace(p) BY <1>12 DEF CreateWorkspace
<1>13. CASE PublishBlob(p) BY <1>13 DEF PublishBlob
<1>14. CASE Validate(p) BY <1>14 DEF Validate
<1>15. CASE RejectValidation(p) BY <1>15 DEF RejectValidation
<1>16. CASE DiscardPublished(p) BY <1>16 DEF DiscardPublished
<1>17. CASE Cleanup(p) BY <1>17 DEF Cleanup
<1>18. CASE ReleaseIdentity(p) BY <1>18 DEF ReleaseIdentity
<1> QED
  BY <1>1, <1>2, <1>3, <1>4, <1>5, <1>6, <1>7, <1>8, <1>9, <1>10, <1>11,
     <1>12, <1>13, <1>14, <1>15, <1>16, <1>17, <1>18 DEF Proceed

LEMMA TypeBreak ==
    ASSUME TypeOK, TargetKnown,
           NEW p \in Process, Break(p)
    PROVE  TypeOK'
<1> USE ConstantsAssumption
        DEF TypeOK, TargetKnown, Go, Raise, Put, locals, cacheVars, workVars,
            Locked, InWorkspace, Active, Ended
<1>1. CASE FailUnlocked(p) BY <1>1 DEF FailUnlocked
<1>2. CASE FailLocked(p) BY <1>2 DEF FailLocked
<1>3. CASE DownloadFails(p) BY <1>3 DEF DownloadFails
<1>4. CASE InterruptValidation(p) BY <1>4 DEF InterruptValidation
<1>5. CASE InterruptPublished(p) BY <1>5 DEF InterruptPublished
<1>6. CASE CleanupFails(p) BY <1>6 DEF CleanupFails
<1>7. CASE MisreadHit(p) BY <1>7 DEF MisreadHit
<1>8. CASE MisreadRecheck(p) BY <1>8 DEF MisreadRecheck
<1>9. CASE Crash(p) BY <1>9 DEF Crash
<1> QED
  BY <1>1, <1>2, <1>3, <1>4, <1>5, <1>6, <1>7, <1>8, <1>9 DEF Break

LEMMA TargetProceed ==
    ASSUME TypeOK, TargetKnown,
           NEW p \in Process, Proceed(p)
    PROVE  TargetKnown'
<1> USE DEF TypeOK, TargetKnown, Go, Raise, Put, locals, cacheVars, workVars,
            Locked, InWorkspace, Active, Ended
<1>1. CASE FastHit(p) BY <1>1 DEF FastHit
<1>2. CASE Miss(p) BY <1>2 DEF Miss
<1>3. CASE Resolve(p) BY <1>3 DEF Resolve
<1>4. CASE Launch(p) BY <1>4 DEF Launch
<1>5. CASE AcquireIdentity(p) BY <1>5 DEF AcquireIdentity
<1>6. CASE RecheckHit(p) BY <1>6 DEF RecheckHit
<1>7. CASE RecheckMiss(p) BY <1>7 DEF RecheckMiss
<1>8. CASE Quarantine(p) BY <1>8 DEF Quarantine
<1>9. CASE FindDirectory(p) BY <1>9 DEF FindDirectory
<1>10. CASE CreateDirectory(p) BY <1>10 DEF CreateDirectory
<1>11. CASE DirectoryExists(p) BY <1>11 DEF DirectoryExists
<1>12. CASE CreateWorkspace(p) BY <1>12 DEF CreateWorkspace
<1>13. CASE PublishBlob(p) BY <1>13 DEF PublishBlob
<1>14. CASE Validate(p) BY <1>14 DEF Validate
<1>15. CASE RejectValidation(p) BY <1>15 DEF RejectValidation
<1>16. CASE DiscardPublished(p) BY <1>16 DEF DiscardPublished
<1>17. CASE Cleanup(p) BY <1>17 DEF Cleanup
<1>18. CASE ReleaseIdentity(p) BY <1>18 DEF ReleaseIdentity
<1> QED
  BY <1>1, <1>2, <1>3, <1>4, <1>5, <1>6, <1>7, <1>8, <1>9, <1>10, <1>11,
     <1>12, <1>13, <1>14, <1>15, <1>16, <1>17, <1>18 DEF Proceed

LEMMA TargetBreak ==
    ASSUME TypeOK, TargetKnown,
           NEW p \in Process, Break(p)
    PROVE  TargetKnown'
<1> USE DEF TypeOK, TargetKnown, Go, Raise, Put, locals, cacheVars, workVars,
            Locked, InWorkspace, Active, Ended
<1>1. CASE FailUnlocked(p) BY <1>1 DEF FailUnlocked
<1>2. CASE FailLocked(p) BY <1>2 DEF FailLocked
<1>3. CASE DownloadFails(p) BY <1>3 DEF DownloadFails
<1>4. CASE InterruptValidation(p) BY <1>4 DEF InterruptValidation
<1>5. CASE InterruptPublished(p) BY <1>5 DEF InterruptPublished
<1>6. CASE CleanupFails(p) BY <1>6 DEF CleanupFails
<1>7. CASE MisreadHit(p) BY <1>7 DEF MisreadHit
<1>8. CASE MisreadRecheck(p) BY <1>8 DEF MisreadRecheck
<1>9. CASE Crash(p) BY <1>9 DEF Crash
<1> QED
  BY <1>1, <1>2, <1>3, <1>4, <1>5, <1>6, <1>7, <1>8, <1>9 DEF Break

LEMMA ExclusiveProceed ==
    ASSUME TypeOK, TargetKnown, IdentityExclusive,
           NEW p \in Process, Proceed(p)
    PROVE  IdentityExclusive'
<1> USE ConstantsAssumption
        DEF TypeOK, TargetKnown, IdentityExclusive, Go, Raise, Put, locals, cacheVars, workVars,
            Locked, InWorkspace, Active, Ended
<1>1. CASE FastHit(p) BY <1>1 DEF FastHit
<1>2. CASE Miss(p) BY <1>2 DEF Miss
<1>3. CASE Resolve(p) BY <1>3 DEF Resolve
<1>4. CASE Launch(p) BY <1>4 DEF Launch
<1>5. CASE AcquireIdentity(p) BY <1>5 DEF AcquireIdentity
<1>6. CASE RecheckHit(p) BY <1>6 DEF RecheckHit
<1>7. CASE RecheckMiss(p) BY <1>7 DEF RecheckMiss
<1>8. CASE Quarantine(p) BY <1>8 DEF Quarantine
<1>9. CASE FindDirectory(p) BY <1>9 DEF FindDirectory
<1>10. CASE CreateDirectory(p) BY <1>10 DEF CreateDirectory
<1>11. CASE DirectoryExists(p) BY <1>11 DEF DirectoryExists
<1>12. CASE CreateWorkspace(p) BY <1>12 DEF CreateWorkspace
<1>13. CASE PublishBlob(p) BY <1>13 DEF PublishBlob
<1>14. CASE Validate(p) BY <1>14 DEF Validate
<1>15. CASE RejectValidation(p) BY <1>15 DEF RejectValidation
<1>16. CASE DiscardPublished(p) BY <1>16 DEF DiscardPublished
<1>17. CASE Cleanup(p) BY <1>17 DEF Cleanup
<1>18. CASE ReleaseIdentity(p) BY <1>18 DEF ReleaseIdentity
<1> QED
  BY <1>1, <1>2, <1>3, <1>4, <1>5, <1>6, <1>7, <1>8, <1>9, <1>10, <1>11,
     <1>12, <1>13, <1>14, <1>15, <1>16, <1>17, <1>18 DEF Proceed

LEMMA ExclusiveBreak ==
    ASSUME TypeOK, TargetKnown, IdentityExclusive,
           NEW p \in Process, Break(p)
    PROVE  IdentityExclusive'
<1> USE ConstantsAssumption
        DEF TypeOK, TargetKnown, IdentityExclusive, Go, Raise, Put, locals, cacheVars, workVars,
            Locked, InWorkspace, Active, Ended
<1>1. CASE FailUnlocked(p) BY <1>1 DEF FailUnlocked
<1>2. CASE FailLocked(p) BY <1>2 DEF FailLocked
<1>3. CASE DownloadFails(p) BY <1>3 DEF DownloadFails
<1>4. CASE InterruptValidation(p) BY <1>4 DEF InterruptValidation
<1>5. CASE InterruptPublished(p) BY <1>5 DEF InterruptPublished
<1>6. CASE CleanupFails(p) BY <1>6 DEF CleanupFails
<1>7. CASE MisreadHit(p) BY <1>7 DEF MisreadHit
<1>8. CASE MisreadRecheck(p) BY <1>8 DEF MisreadRecheck
<1>9. CASE Crash(p) BY <1>9 DEF Crash
<1> QED
  BY <1>1, <1>2, <1>3, <1>4, <1>5, <1>6, <1>7, <1>8, <1>9 DEF Break

LEMMA MissingProceed ==
    ASSUME TypeOK, TargetKnown, IdentityExclusive,
           DownloadsOnlyMissing,
           NEW p \in Process, Proceed(p)
    PROVE  DownloadsOnlyMissing'
<1> USE DEF TypeOK, TargetKnown, IdentityExclusive, DownloadsOnlyMissing,
            Go, Raise, Put, locals, cacheVars, workVars,
            Locked, InWorkspace, Active, Ended
<1>1. CASE FastHit(p) BY <1>1 DEF FastHit
<1>2. CASE Miss(p) BY <1>2 DEF Miss
<1>3. CASE Resolve(p) BY <1>3 DEF Resolve
<1>4. CASE Launch(p) BY <1>4 DEF Launch
<1>5. CASE AcquireIdentity(p) BY <1>5 DEF AcquireIdentity
<1>6. CASE RecheckHit(p) BY <1>6 DEF RecheckHit
<1>7. CASE RecheckMiss(p) BY <1>7 DEF RecheckMiss
<1>8. CASE Quarantine(p) BY <1>8 DEF Quarantine
<1>9. CASE FindDirectory(p) BY <1>9 DEF FindDirectory
<1>10. CASE CreateDirectory(p) BY <1>10 DEF CreateDirectory
<1>11. CASE DirectoryExists(p) BY <1>11 DEF DirectoryExists
<1>12. CASE CreateWorkspace(p) BY <1>12 DEF CreateWorkspace
<1>13. CASE PublishBlob(p) BY <1>13 DEF PublishBlob
<1>14. CASE Validate(p) BY <1>14 DEF Validate
<1>15. CASE RejectValidation(p) BY <1>15 DEF RejectValidation
<1>16. CASE DiscardPublished(p) BY <1>16 DEF DiscardPublished
<1>17. CASE Cleanup(p) BY <1>17 DEF Cleanup
<1>18. CASE ReleaseIdentity(p) BY <1>18 DEF ReleaseIdentity
<1> QED
  BY <1>1, <1>2, <1>3, <1>4, <1>5, <1>6, <1>7, <1>8, <1>9, <1>10, <1>11,
     <1>12, <1>13, <1>14, <1>15, <1>16, <1>17, <1>18 DEF Proceed

LEMMA MissingBreak ==
    ASSUME TypeOK, TargetKnown, IdentityExclusive,
           DownloadsOnlyMissing,
           NEW p \in Process, Break(p)
    PROVE  DownloadsOnlyMissing'
<1> USE DEF TypeOK, TargetKnown, IdentityExclusive, DownloadsOnlyMissing,
            Go, Raise, Put, locals, cacheVars, workVars,
            Locked, InWorkspace, Active, Ended
<1>1. CASE FailUnlocked(p) BY <1>1 DEF FailUnlocked
<1>2. CASE FailLocked(p) BY <1>2 DEF FailLocked
<1>3. CASE DownloadFails(p) BY <1>3 DEF DownloadFails
<1>4. CASE InterruptValidation(p) BY <1>4 DEF InterruptValidation
<1>5. CASE InterruptPublished(p) BY <1>5 DEF InterruptPublished
<1>6. CASE CleanupFails(p) BY <1>6 DEF CleanupFails
<1>7. CASE MisreadHit(p) BY <1>7 DEF MisreadHit
<1>8. CASE MisreadRecheck(p) BY <1>8 DEF MisreadRecheck
<1>9. CASE Crash(p) BY <1>9 DEF Crash
<1> QED
  BY <1>1, <1>2, <1>3, <1>4, <1>5, <1>6, <1>7, <1>8, <1>9 DEF Break

LEMMA QuarantineProceed ==
    ASSUME TypeOK, TargetKnown, IdentityExclusive,
           QuarantineJustified,
           NEW p \in Process, Proceed(p)
    PROVE  QuarantineJustified'
<1> USE DEF TypeOK, TargetKnown, IdentityExclusive, QuarantineJustified,
            Go, Raise, Put, locals, cacheVars, workVars,
            Locked, InWorkspace, Active, Ended
<1>1. CASE FastHit(p) BY <1>1 DEF FastHit
<1>2. CASE Miss(p) BY <1>2 DEF Miss
<1>3. CASE Resolve(p) BY <1>3 DEF Resolve
<1>4. CASE Launch(p) BY <1>4 DEF Launch
<1>5. CASE AcquireIdentity(p) BY <1>5 DEF AcquireIdentity
<1>6. CASE RecheckHit(p) BY <1>6 DEF RecheckHit
<1>7. CASE RecheckMiss(p) BY <1>7 DEF RecheckMiss
<1>8. CASE Quarantine(p) BY <1>8 DEF Quarantine
<1>9. CASE FindDirectory(p) BY <1>9 DEF FindDirectory
<1>10. CASE CreateDirectory(p) BY <1>10 DEF CreateDirectory
<1>11. CASE DirectoryExists(p) BY <1>11 DEF DirectoryExists
<1>12. CASE CreateWorkspace(p) BY <1>12 DEF CreateWorkspace
<1>13. CASE PublishBlob(p) BY <1>13 DEF PublishBlob
<1>14. CASE Validate(p) BY <1>14 DEF Validate
<1>15. CASE RejectValidation(p) BY <1>15 DEF RejectValidation
<1>16. CASE DiscardPublished(p) BY <1>16 DEF DiscardPublished
<1>17. CASE Cleanup(p) BY <1>17 DEF Cleanup
<1>18. CASE ReleaseIdentity(p) BY <1>18 DEF ReleaseIdentity
<1> QED
  BY <1>1, <1>2, <1>3, <1>4, <1>5, <1>6, <1>7, <1>8, <1>9, <1>10, <1>11,
     <1>12, <1>13, <1>14, <1>15, <1>16, <1>17, <1>18 DEF Proceed

LEMMA QuarantineBreak ==
    ASSUME TypeOK, TargetKnown, IdentityExclusive,
           QuarantineJustified,
           NEW p \in Process, Break(p)
    PROVE  QuarantineJustified'
<1> USE DEF TypeOK, TargetKnown, IdentityExclusive, QuarantineJustified,
            Go, Raise, Put, locals, cacheVars, workVars,
            Locked, InWorkspace, Active, Ended
<1>1. CASE FailUnlocked(p) BY <1>1 DEF FailUnlocked
<1>2. CASE FailLocked(p) BY <1>2 DEF FailLocked
<1>3. CASE DownloadFails(p) BY <1>3 DEF DownloadFails
<1>4. CASE InterruptValidation(p) BY <1>4 DEF InterruptValidation
<1>5. CASE InterruptPublished(p) BY <1>5 DEF InterruptPublished
<1>6. CASE CleanupFails(p) BY <1>6 DEF CleanupFails
<1>7. CASE MisreadHit(p) BY <1>7 DEF MisreadHit
<1>8. CASE MisreadRecheck(p) BY <1>8 DEF MisreadRecheck
<1>9. CASE Crash(p) BY <1>9 DEF Crash
<1> QED
  BY <1>1, <1>2, <1>3, <1>4, <1>5, <1>6, <1>7, <1>8, <1>9 DEF Break

LEMMA DiscardProceed ==
    ASSUME TypeOK, DiscardJustified,
           NEW p \in Process, Proceed(p)
    PROVE  DiscardJustified'
<1> USE DEF TypeOK, DiscardJustified, Go, Raise, Put, locals, cacheVars, workVars,
            Locked, InWorkspace, Active, Ended
<1>1. CASE FastHit(p) BY <1>1 DEF FastHit
<1>2. CASE Miss(p) BY <1>2 DEF Miss
<1>3. CASE Resolve(p) BY <1>3 DEF Resolve
<1>4. CASE Launch(p) BY <1>4 DEF Launch
<1>5. CASE AcquireIdentity(p) BY <1>5 DEF AcquireIdentity
<1>6. CASE RecheckHit(p) BY <1>6 DEF RecheckHit
<1>7. CASE RecheckMiss(p) BY <1>7 DEF RecheckMiss
<1>8. CASE Quarantine(p) BY <1>8 DEF Quarantine
<1>9. CASE FindDirectory(p) BY <1>9 DEF FindDirectory
<1>10. CASE CreateDirectory(p) BY <1>10 DEF CreateDirectory
<1>11. CASE DirectoryExists(p) BY <1>11 DEF DirectoryExists
<1>12. CASE CreateWorkspace(p) BY <1>12 DEF CreateWorkspace
<1>13. CASE PublishBlob(p) BY <1>13 DEF PublishBlob
<1>14. CASE Validate(p) BY <1>14 DEF Validate
<1>15. CASE RejectValidation(p) BY <1>15 DEF RejectValidation
<1>16. CASE DiscardPublished(p) BY <1>16 DEF DiscardPublished
<1>17. CASE Cleanup(p) BY <1>17 DEF Cleanup
<1>18. CASE ReleaseIdentity(p) BY <1>18 DEF ReleaseIdentity
<1> QED
  BY <1>1, <1>2, <1>3, <1>4, <1>5, <1>6, <1>7, <1>8, <1>9, <1>10, <1>11,
     <1>12, <1>13, <1>14, <1>15, <1>16, <1>17, <1>18 DEF Proceed

LEMMA DiscardBreak ==
    ASSUME TypeOK, DiscardJustified,
           NEW p \in Process, Break(p)
    PROVE  DiscardJustified'
<1> USE DEF TypeOK, DiscardJustified, Go, Raise, Put, locals, cacheVars, workVars,
            Locked, InWorkspace, Active, Ended
<1>1. CASE FailUnlocked(p) BY <1>1 DEF FailUnlocked
<1>2. CASE FailLocked(p) BY <1>2 DEF FailLocked
<1>3. CASE DownloadFails(p) BY <1>3 DEF DownloadFails
<1>4. CASE InterruptValidation(p) BY <1>4 DEF InterruptValidation
<1>5. CASE InterruptPublished(p) BY <1>5 DEF InterruptPublished
<1>6. CASE CleanupFails(p) BY <1>6 DEF CleanupFails
<1>7. CASE MisreadHit(p) BY <1>7 DEF MisreadHit
<1>8. CASE MisreadRecheck(p) BY <1>8 DEF MisreadRecheck
<1>9. CASE Crash(p) BY <1>9 DEF Crash
<1> QED
  BY <1>1, <1>2, <1>3, <1>4, <1>5, <1>6, <1>7, <1>8, <1>9 DEF Break

LEMMA WorkProceed ==
    ASSUME TypeOK, WorkspacesCleaned,
           NEW p \in Process, Proceed(p)
    PROVE  WorkspacesCleaned'
<1> USE DEF TypeOK, WorkspacesCleaned, Go, Raise, Put, locals, cacheVars, workVars,
            Locked, InWorkspace, Active, Ended
<1>1. CASE FastHit(p) BY <1>1 DEF FastHit
<1>2. CASE Miss(p) BY <1>2 DEF Miss
<1>3. CASE Resolve(p) BY <1>3 DEF Resolve
<1>4. CASE Launch(p) BY <1>4 DEF Launch
<1>5. CASE AcquireIdentity(p) BY <1>5 DEF AcquireIdentity
<1>6. CASE RecheckHit(p) BY <1>6 DEF RecheckHit
<1>7. CASE RecheckMiss(p) BY <1>7 DEF RecheckMiss
<1>8. CASE Quarantine(p) BY <1>8 DEF Quarantine
<1>9. CASE FindDirectory(p) BY <1>9 DEF FindDirectory
<1>10. CASE CreateDirectory(p) BY <1>10 DEF CreateDirectory
<1>11. CASE DirectoryExists(p) BY <1>11 DEF DirectoryExists
<1>12. CASE CreateWorkspace(p) BY <1>12 DEF CreateWorkspace
<1>13. CASE PublishBlob(p) BY <1>13 DEF PublishBlob
<1>14. CASE Validate(p) BY <1>14 DEF Validate
<1>15. CASE RejectValidation(p) BY <1>15 DEF RejectValidation
<1>16. CASE DiscardPublished(p) BY <1>16 DEF DiscardPublished
<1>17. CASE Cleanup(p) BY <1>17 DEF Cleanup
<1>18. CASE ReleaseIdentity(p) BY <1>18 DEF ReleaseIdentity
<1> QED
  BY <1>1, <1>2, <1>3, <1>4, <1>5, <1>6, <1>7, <1>8, <1>9, <1>10, <1>11,
     <1>12, <1>13, <1>14, <1>15, <1>16, <1>17, <1>18 DEF Proceed

LEMMA WorkBreak ==
    ASSUME TypeOK, WorkspacesCleaned,
           NEW p \in Process, Break(p)
    PROVE  WorkspacesCleaned'
<1> USE DEF TypeOK, WorkspacesCleaned, Go, Raise, Put, locals, cacheVars, workVars,
            Locked, InWorkspace, Active, Ended
<1>1. CASE FailUnlocked(p) BY <1>1 DEF FailUnlocked
<1>2. CASE FailLocked(p) BY <1>2 DEF FailLocked
<1>3. CASE DownloadFails(p) BY <1>3 DEF DownloadFails
<1>4. CASE InterruptValidation(p) BY <1>4 DEF InterruptValidation
<1>5. CASE InterruptPublished(p) BY <1>5 DEF InterruptPublished
<1>6. CASE CleanupFails(p) BY <1>6 DEF CleanupFails
<1>7. CASE MisreadHit(p) BY <1>7 DEF MisreadHit
<1>8. CASE MisreadRecheck(p) BY <1>8 DEF MisreadRecheck
<1>9. CASE Crash(p) BY <1>9 DEF Crash
<1> QED
  BY <1>1, <1>2, <1>3, <1>4, <1>5, <1>6, <1>7, <1>8, <1>9 DEF Break

LEMMA InvDamage ==
    ASSUME Inv, NEW b \in Blob, DamageBlob(b)
    PROVE  Inv'
BY DEF DamageBlob, Inv, TypeOK, TargetKnown, IdentityExclusive,
       DownloadsOnlyMissing, QuarantineJustified, DiscardJustified,
       WorkspacesCleaned, Put, locals, cacheVars, workVars, Locked,
       InWorkspace, Active, Ended

LEMMA InvStart ==
    ASSUME Inv, NEW p \in Process, Start(p)
    PROVE  Inv'
BY ConstantsAssumption
   DEF Start, Go, Inv, TypeOK, TargetKnown, IdentityExclusive,
       DownloadsOnlyMissing, QuarantineJustified, DiscardJustified,
       WorkspacesCleaned, cacheVars, workVars, Locked, InWorkspace, Active,
       Ended

LEMMA InvNext == Inv /\ [Next]_vars => Inv'
<1> SUFFICES ASSUME Inv, [Next]_vars PROVE Inv'
  OBVIOUS
<1>1. ASSUME NEW p \in Process, Proceed(p) PROVE Inv'
  BY <1>1, TypeProceed, TargetProceed, ExclusiveProceed, MissingProceed,
     QuarantineProceed, DiscardProceed, WorkProceed DEF Inv
<1>2. ASSUME NEW p \in Process, Break(p) PROVE Inv'
  BY <1>2, TypeBreak, TargetBreak, ExclusiveBreak, MissingBreak,
     QuarantineBreak, DiscardBreak, WorkBreak DEF Inv
<1> QED
  BY <1>1, <1>2, InvStart, InvDamage, InvStutter DEF Next

THEOREM Invariance == Spec => []Inv
<1> QED
  BY InvInit, InvNext, PTL DEF Spec

(* Every variable keeps its type. *)
THEOREM TypeCorrect == Spec => []TypeOK
<1>1. Inv => TypeOK
  BY DEF Inv
<1> QED
  BY <1>1, Invariance, PTL

(* Whoever is between the acquisition and the release of an identity holds *)
(* its flock, and nobody else does: errors, interrupts, and crashes keep   *)
(* the two in step.                                                        *)
THEOREM IdentitiesExclusive == Spec => []IdentityExclusive
<1>1. Inv => IdentityExclusive
  BY DEF Inv
<1> QED
  BY <1>1, Invariance, PTL

(* The second look under the lock is enough: a launch that goes on to      *)
(* download does not have the artifact in the cache, whatever happened     *)
(* between its first look and the download.                                *)
THEOREM NoNeedlessDownload == Spec => []DownloadsOnlyMissing
<1>1. Inv => DownloadsOnlyMissing
  BY DEF Inv
<1> QED
  BY <1>1, Invariance, PTL

(* Only a killed launch, or one whose clean-up failed, leaves temporary    *)
(* state behind.                                                           *)
THEOREM NoWorkspaceLeft == Spec => []WorkspacesCleaned
<1>1. Inv => WorkspacesCleaned
  BY DEF Inv
<1> QED
  BY <1>1, Invariance, PTL

-----------------------------------------------------------------------------
(* What a step may do to a valid entry. *)

Kept ==
    \A b \in Blob :
        blob[b] = "valid" /\ blob'[b] # "valid" =>
           \/ b \in disturbed'
           \/ /\ lock[b] \in Process
              /\ pc[lock[b]] = "discard"
              /\ failing[lock[b]]

LEMMA KeptProceed ==
    ASSUME Inv, NEW p \in Process, Proceed(p)
    PROVE  Kept
<1> USE DEF Inv, TypeOK, Go, Raise, Put, cacheVars, Kept
<1>1. CASE Quarantine(p)
  <2>1. pc[p] = "quarantine" /\ target[p] \in Blob
    BY <1>1 DEF Quarantine, TargetKnown, Locked
  <2> QED
    BY <1>1, <2>1 DEF Quarantine, QuarantineJustified
<1>2. CASE DiscardPublished(p)
  <2>1. pc[p] = "discard" /\ target[p] \in Blob
    BY <1>2 DEF DiscardPublished, TargetKnown, Locked, InWorkspace
  <2>2. lock[target[p]] = p
    BY <2>1 DEF IdentityExclusive, Locked, InWorkspace
  <2>3. failing[p]
    BY <2>1 DEF DiscardJustified
  <2>4. \A b \in Blob : blob'[b] # blob[b] => b = target[p]
    BY <1>2 DEF DiscardPublished
  <2>5. ASSUME NEW b \in Blob, blob[b] = "valid", blob'[b] # "valid"
        PROVE  lock[b] \in Process /\ pc[lock[b]] = "discard"
                  /\ failing[lock[b]]
    <3>1. lock[b] = p
      BY <2>2, <2>4, <2>5
    <3> QED
      BY <3>1, <2>1, <2>3, Zenon
  <2> QED
    BY <2>5
<1>3. CASE PublishBlob(p)
  BY <1>3 DEF PublishBlob
<1>4. CASE blob' = blob
  BY <1>4
<1> QED
  BY <1>1, <1>2, <1>3, <1>4
     DEF Proceed, FastHit, Miss, Resolve, Launch, AcquireIdentity, RecheckHit,
         RecheckMiss, FindDirectory, CreateDirectory, DirectoryExists,
         CreateWorkspace, Validate, RejectValidation, Cleanup, ReleaseIdentity

(* Errors, interrupts and crashes by themselves do not touch the entries.  *)
LEMMA BreakKeepsBlobs ==
    ASSUME NEW p \in Process, Break(p)
    PROVE  blob' = blob
BY DEF Break, cacheVars, FailUnlocked, FailLocked, DownloadFails,
       InterruptValidation, InterruptPublished, CleanupFails, MisreadHit,
       MisreadRecheck, Crash

LEMMA KeptNext == Inv /\ [Next]_vars => Kept
<1> SUFFICES ASSUME Inv, [Next]_vars PROVE Kept
  OBVIOUS
<1>1. ASSUME NEW p \in Process, Break(p) PROVE Kept
  BY <1>1, BreakKeepsBlobs DEF Kept
<1>2. ASSUME NEW p \in Process, Start(p) PROVE Kept
  BY <1>2 DEF Start, cacheVars, Kept
<1>3. ASSUME NEW b \in Blob, DamageBlob(b) PROVE Kept
  BY <1>3 DEF DamageBlob, Put, Kept, Inv, TypeOK
<1>4. CASE UNCHANGED vars
  BY <1>4 DEF vars, cacheVars, Kept
<1> QED
  BY <1>1, <1>2, <1>3, <1>4, KeptProceed DEF Next

(* A valid entry is only ever taken away by damage or a read error, or by  *)
(* its own publisher before that has returned it: no launch unlinks what   *)
(* another has published.                                                  *)
THEOREM ValidEntriesKept == Spec => ValidBlobKept
<1>1. Inv /\ [Next]_vars => [Kept]_vars
  BY KeptNext
<1>2. Spec => [][Kept]_vars
  BY <1>1, Invariance, PTL DEF Spec
<1> QED
  BY <1>2, PTL DEF ValidBlobKept, Kept

-----------------------------------------------------------------------------
(* Every step is a step of ArtifactStore or changes nothing there.         *)

Valid == {b \in Blob : blob[b] = "valid"}

StoreStep == Store!Next \/ UNCHANGED Store!vars

(* What is offered depends on the holder only: a step of p that leaves the *)
(* entries and what others hold alone, and during which p is not checking  *)
(* a publication, offers and withdraws nothing.                            *)
LEMMA OfferedFrame ==
    ASSUME Inv, NEW p \in Process,
           blob' = blob,
           pc[p] \notin {"validate", "discard"},
           pc'[p] \notin {"validate", "discard"},
           \A q \in Process \ {p} : pc'[q] = pc[q],
           \A b \in Blob, q \in Process \ {p} : lock'[b] = q <=> lock[b] = q
    PROVE  Offered' = Offered
BY DEF Offered

LEMMA StoreFrame ==
    ASSUME Offered' = Offered, blob' = blob, disturbed' = disturbed
    PROVE  StoreStep
BY DEF StoreStep, Store!vars

(* A launch that checks its publication holds its lock and nobody else is  *)
(* at that identity.                                                       *)
LEMMA OfferedByHolder ==
    ASSUME Inv, NEW p \in Process, pc[p] \in {"validate", "discard"}
    PROVE  /\ target[p] \in Blob
           /\ lock[target[p]] = p
           /\ blob[target[p]] = "valid" <=> target[p] \in Offered
BY DEF Inv, TargetKnown, IdentityExclusive, Offered, Locked, InWorkspace

(* The publisher is done with an entry it leaves in place.                 *)
LEMMA StepConfirms ==
    ASSUME Inv, NEW p \in Process, pc[p] \in {"validate", "discard"},
           pc' = [pc EXCEPT ![p] = "cleanup"],
           blob' = blob, lock' = lock, disturbed' = disturbed
    PROVE  StoreStep
<1>1. target[p] \in Blob /\ lock[target[p]] = p
  BY OfferedByHolder
<1>2. \A b \in Blob : lock[b] = p => b = target[p]
  BY DEF Inv, IdentityExclusive
<1>3. pc \in [Process -> {"idle", "resolved"} \cup Active \cup Ended]
  BY DEF Inv, TypeOK
<1>4. Offered' = Offered \ {target[p]}
  BY <1>1, <1>2, <1>3 DEF Offered
<1>5. CASE blob[target[p]] = "valid"
  <2>1. target[p] \in Offered
    BY <1>5, OfferedByHolder
  <2>2. (Valid \ Offered)' = (Valid \ Offered) \cup {target[p]}
    BY <1>1, <1>4, <1>5 DEF Valid
  <2>3. PICK x \in Blob : x = target[p]
    BY <1>1
  <2>4. Store!Confirm(x)
    BY <1>4, <2>1, <2>2, <2>3 DEF Store!Confirm, Valid
  <2> QED
    BY <2>4 DEF StoreStep, Store!Next
<1>6. CASE blob[target[p]] # "valid"
  <2>1. Offered' = Offered
    BY <1>4, <1>6, OfferedByHolder
  <2> QED
    BY <2>1, StoreFrame
<1> QED
  BY <1>5, <1>6

(* Unlinking an entry that is offered, lost, or not valid.                 *)
LEMMA StepWithdraws ==
    ASSUME Inv, NEW p \in Process, NEW b \in Blob, lock[b] = p,
           b \in Offered \cup disturbed \/ blob[b] # "valid",
           NEW to \in {"ensure", "cleanup"},
           pc' = [pc EXCEPT ![p] = to],
           blob' = [blob EXCEPT ![b] = "absent"],
           lock' = lock, disturbed' = disturbed
    PROVE  StoreStep
<1>1. \A c \in Blob : lock[c] = p => c = b
  BY DEF Inv, IdentityExclusive
<1>2. /\ pc \in [Process -> {"idle", "resolved"} \cup Active \cup Ended]
      /\ blob \in [Blob -> {"absent", "valid", "corrupt"}]
  BY DEF Inv, TypeOK
<1>3. Offered' = Offered \ {b}
  BY <1>1, <1>2 DEF Offered
<1>4. Valid' = Valid \ {b}
  BY <1>2 DEF Valid
<1>5. CASE b \in Offered \cup disturbed
  <2>1. Store!Withdraw(b)
    BY <1>3, <1>4, <1>5 DEF Store!Withdraw, Valid
  <2> QED
    BY <2>1 DEF StoreStep, Store!Next
<1>6. CASE blob[b] # "valid"
  <2>1. b \notin Offered /\ b \notin Valid
    BY <1>6 DEF Offered, Valid
  <2> QED
    BY <1>3, <1>4, <2>1 DEF StoreStep, Store!vars, Valid
<1> QED
  BY <1>5, <1>6

LEMMA StepPublishes ==
    ASSUME Inv, NEW p \in Process, PublishBlob(p)
    PROVE  StoreStep
<1>1. pc[p] = "download" /\ pc' = [pc EXCEPT ![p] = "validate"]
  BY DEF PublishBlob, Go
<1>2. /\ target[p] \in Blob
      /\ lock[target[p]] = p
      /\ blob[target[p]] # "valid"
      /\ \A b \in Blob : lock[b] = p => b = target[p]
  BY <1>1 DEF Inv, TargetKnown, IdentityExclusive, DownloadsOnlyMissing,
              Locked, InWorkspace
<1>3. /\ pc \in [Process -> {"idle", "resolved"} \cup Active \cup Ended]
      /\ blob \in [Blob -> {"absent", "valid", "corrupt"}]
  BY DEF Inv, TypeOK
<1>4. /\ blob' = [blob EXCEPT ![target[p]] = "valid"]
      /\ disturbed' = disturbed \ {target[p]}
      /\ lock' = lock
  BY DEF PublishBlob, Put
<1>5. Offered' = Offered \cup {target[p]}
  BY <1>1, <1>2, <1>3, <1>4 DEF Offered
<1>6. (Valid \ Offered)' = Valid \ Offered
  BY <1>2, <1>3, <1>4, <1>5 DEF Valid
<1>7. PICK x \in Blob : x = target[p]
  BY <1>2
<1>8. Store!Offer(x)
  BY <1>2, <1>4, <1>5, <1>6, <1>7 DEF Store!Offer, Valid
<1> QED
  BY <1>8 DEF StoreStep, Store!Next

LEMMA StepOfProceed ==
    ASSUME Inv, NEW p \in Process, Proceed(p)
    PROVE  StoreStep
<1> DEFINE Frame ==
      /\ blob' = blob /\ disturbed' = disturbed
      /\ pc[p] \notin {"validate", "discard"}
      /\ pc'[p] \notin {"validate", "discard"}
      /\ \A q \in Process \ {p} : pc'[q] = pc[q]
      /\ \A b \in Blob, q \in Process \ {p} : lock'[b] = q <=> lock[b] = q
<1>1. CASE Frame
  BY <1>1, OfferedFrame, StoreFrame
<1>2. CASE PublishBlob(p)
  BY <1>2, StepPublishes
<1>3. CASE Quarantine(p)
  <2>1. /\ pc[p] = "quarantine"
        /\ pc' = [pc EXCEPT ![p] = "ensure"]
        /\ blob' = [blob EXCEPT ![target[p]] = "absent"]
        /\ lock' = lock /\ disturbed' = disturbed
    BY <1>3 DEF Quarantine, Go, Put
  <2>2. target[p] \in Blob /\ lock[target[p]] = p
    BY <2>1 DEF Inv, TargetKnown, IdentityExclusive, Locked
  <2>3. target[p] \in disturbed \/ blob[target[p]] # "valid"
    BY <2>1 DEF Inv, QuarantineJustified
  <2> QED
    BY <2>1, <2>2, <2>3, StepWithdraws
<1>4. CASE DiscardPublished(p)
  <2>1. /\ pc[p] = "discard"
        /\ pc' = [pc EXCEPT ![p] = "cleanup"]
        /\ blob' = [blob EXCEPT ![target[p]] = "absent"]
        /\ lock' = lock /\ disturbed' = disturbed
    BY <1>4 DEF DiscardPublished, Go, Put
  <2>2. /\ target[p] \in Blob /\ lock[target[p]] = p
        /\ target[p] \in Offered \/ blob[target[p]] # "valid"
    BY <2>1, OfferedByHolder
  <2> QED
    BY <2>1, <2>2, StepWithdraws
<1>5. CASE Validate(p) \/ RejectValidation(p)
  <2>1. /\ pc[p] = "validate"
        /\ blob' = blob /\ lock' = lock /\ disturbed' = disturbed
        /\ \/ pc' = [pc EXCEPT ![p] = "cleanup"]
           \/ pc' = [pc EXCEPT ![p] = "discard"]
    BY <1>5 DEF Validate, RejectValidation, Go, Raise, cacheVars
  <2>2. CASE pc' = [pc EXCEPT ![p] = "cleanup"]
    BY <2>1, <2>2, StepConfirms
  <2>3. CASE pc' = [pc EXCEPT ![p] = "discard"]
    <3>1. Offered' = Offered
      BY <2>1, <2>3 DEF Offered, Inv, TypeOK
    <3> QED
      BY <2>1, <3>1, StoreFrame
  <2> QED
    BY <2>1, <2>2, <2>3
<1> USE DEF Inv, TypeOK, Go, Raise, locals, cacheVars
<1>6. CASE \/ FastHit(p) \/ Miss(p) \/ Resolve(p) \/ Launch(p)
           \/ RecheckHit(p) \/ RecheckMiss(p) \/ FindDirectory(p)
           \/ CreateDirectory(p) \/ DirectoryExists(p) \/ CreateWorkspace(p)
           \/ Cleanup(p)
  <2>1. Frame
    BY <1>6
       DEF FastHit, Miss, Resolve, Launch, RecheckHit, RecheckMiss,
           FindDirectory, CreateDirectory, DirectoryExists, CreateWorkspace,
           Cleanup
  <2> QED
    BY <2>1, <1>1
<1>7. CASE AcquireIdentity(p)
  <2>1. target[p] \in Blob /\ lock[target[p]] = NoProcess
    BY <1>7 DEF AcquireIdentity, TargetKnown
  <2>2. Frame
    BY <1>7, <2>1, ConstantsAssumption DEF AcquireIdentity
  <2> QED
    BY <2>2, <1>1
<1>8. CASE ReleaseIdentity(p)
  <2>1. target[p] \in Blob /\ lock[target[p]] = p
    BY <1>8 DEF ReleaseIdentity, TargetKnown, IdentityExclusive, Locked
  <2>2. Frame
    BY <1>8, <2>1, ConstantsAssumption DEF ReleaseIdentity
  <2> QED
    BY <2>2, <1>1
<1> QED
  BY <1>2, <1>3, <1>4, <1>5, <1>6, <1>7, <1>8 DEF Proceed

LEMMA StepOfBreak ==
    ASSUME Inv, NEW p \in Process, Break(p)
    PROVE  StoreStep
<1> DEFINE Frame ==
      /\ disturbed' = disturbed
      /\ pc[p] \notin {"validate", "discard"}
      /\ pc'[p] \notin {"validate", "discard"}
      /\ \A q \in Process \ {p} : pc'[q] = pc[q]
      /\ \A b \in Blob, q \in Process \ {p} : lock'[b] = q <=> lock[b] = q
<1>1. blob' = blob
  BY BreakKeepsBlobs
<1>2. CASE Frame
  BY <1>1, <1>2, OfferedFrame, StoreFrame
<1>3. CASE InterruptPublished(p)
  <2>1. /\ pc[p] \in {"validate", "discard"}
        /\ pc' = [pc EXCEPT ![p] = "cleanup"]
        /\ lock' = lock /\ disturbed' = disturbed
    BY <1>3 DEF InterruptPublished, Raise, Go, cacheVars
  <2> QED
    BY <1>1, <2>1, StepConfirms
<1>4. CASE InterruptValidation(p)
  <2>1. /\ pc[p] = "validate"
        /\ pc' = [pc EXCEPT ![p] = "discard"]
        /\ lock' = lock /\ disturbed' = disturbed
    BY <1>4 DEF InterruptValidation, Raise, Go, cacheVars
  <2>2. Offered' = Offered
    BY <1>1, <2>1 DEF Offered, Inv, TypeOK
  <2> QED
    BY <1>1, <2>1, <2>2, StoreFrame
<1>5. CASE MisreadRecheck(p)
  <2>1. /\ pc[p] = "recheck"
        /\ pc' = [pc EXCEPT ![p] = "quarantine"]
        /\ lock' = lock
        /\ disturbed' = disturbed \cup {target[p]}
    BY <1>5 DEF MisreadRecheck, Go
  <2>2. target[p] \in Blob
    BY <2>1 DEF Inv, TargetKnown, Locked
  <2>3. Offered' = Offered
    BY <1>1, <2>1 DEF Offered, Inv, TypeOK
  <2>4. PICK x \in Blob : x = target[p]
    BY <2>2
  <2>5. Store!Lose(x)
    BY <1>1, <2>1, <2>3, <2>4 DEF Store!Lose
  <2> QED
    BY <2>5 DEF StoreStep, Store!Next
<1>6. CASE Crash(p)
  <2>1. /\ pc' = [pc EXCEPT ![p] = "killed"]
        /\ disturbed' = disturbed
        /\ lock' = [b \in Blob |-> IF lock[b] = p THEN NoProcess ELSE lock[b]]
    BY <1>6 DEF Crash, cacheVars
  <2>2. pc \in [Process -> {"idle", "resolved"} \cup Active \cup Ended]
    BY DEF Inv, TypeOK
  <2>3. CASE pc[p] \notin {"validate", "discard"}
    <3>1. Frame
      BY <2>1, <2>2, <2>3, ConstantsAssumption
    <3> QED
      BY <3>1, <1>2
  <2>4. CASE pc[p] \in {"validate", "discard"}
    <3>1. /\ target[p] \in Blob
          /\ lock[target[p]] = p
          /\ \A b \in Blob : lock[b] = p => b = target[p]
      BY <2>4, OfferedByHolder DEF Inv, IdentityExclusive
    <3>2. Offered' = Offered \ {target[p]}
      BY <1>1, <2>1, <2>2, <2>4, <3>1, ConstantsAssumption DEF Offered
    <3>3. CASE blob[target[p]] = "valid"
      <4>1. target[p] \in Offered
        BY <2>4, <3>3, OfferedByHolder
      <4>2. (Valid \ Offered)' = (Valid \ Offered) \cup {target[p]}
        BY <1>1, <3>1, <3>2, <3>3 DEF Valid
      <4>3. PICK x \in Blob : x = target[p]
        BY <3>1
      <4>4. Store!Confirm(x)
        BY <2>1, <3>2, <4>1, <4>2, <4>3 DEF Store!Confirm, Valid
      <4> QED
        BY <4>4 DEF StoreStep, Store!Next
    <3>4. CASE blob[target[p]] # "valid"
      <4>1. Offered' = Offered
        BY <2>4, <3>2, <3>4, OfferedByHolder
      <4> QED
        BY <1>1, <2>1, <4>1, StoreFrame
    <3> QED
      BY <3>3, <3>4
  <2> QED
    BY <2>3, <2>4
<1>7. CASE \/ FailUnlocked(p) \/ FailLocked(p) \/ DownloadFails(p)
           \/ CleanupFails(p) \/ MisreadHit(p)
  <2>1. Frame
    BY <1>7
       DEF FailUnlocked, FailLocked, DownloadFails, CleanupFails, MisreadHit,
           Go, Raise, cacheVars, Inv, TypeOK
  <2> QED
    BY <2>1, <1>2
<1> QED
  BY <1>3, <1>4, <1>5, <1>6, <1>7 DEF Break

LEMMA StepOfDamage ==
    ASSUME Inv, NEW b \in Blob, DamageBlob(b)
    PROVE  StoreStep
<1>1. PICK bad \in {"absent", "corrupt"} : blob' = [blob EXCEPT ![b] = bad]
  BY DEF DamageBlob, Put
<1>2. /\ pc' = pc /\ lock' = lock
      /\ disturbed' = disturbed \cup {b}
      /\ blob \in [Blob -> {"absent", "valid", "corrupt"}]
  BY DEF DamageBlob, Inv, TypeOK
<1>3. Offered' = Offered \ {b}
  BY <1>1, <1>2 DEF Offered
<1>4. (Valid \ Offered)' = (Valid \ Offered) \ {b}
  BY <1>1, <1>2, <1>3 DEF Valid
<1>5. Store!Lose(b)
  BY <1>2, <1>3, <1>4 DEF Store!Lose, Valid
<1> QED
  BY <1>5 DEF StoreStep, Store!Next

LEMMA StepOfNext == Inv /\ [Next]_vars => [Store!Next]_Store!vars
<1> SUFFICES ASSUME Inv, [Next]_vars PROVE StoreStep
  BY DEF StoreStep
<1>1. ASSUME NEW p \in Process, Start(p) PROVE StoreStep
  <2>1. Offered' = Offered
    <3>1. /\ pc[p] = "idle"
          /\ pc' = [pc EXCEPT ![p] = "select"]
          /\ lock' = lock /\ blob' = blob
      BY <1>1 DEF Start, Go, cacheVars
    <3> QED
      BY <3>1 DEF Offered, Inv, TypeOK
  <2> QED
    BY <1>1, <2>1, StoreFrame DEF Start, cacheVars
<1>2. CASE UNCHANGED vars
  <2>1. Offered' = Offered
    BY <1>2 DEF vars, cacheVars, Offered
  <2> QED
    BY <1>2, <2>1, StoreFrame DEF vars, cacheVars
<1> QED
  BY <1>1, <1>2, StepOfProceed, StepOfBreak, StepOfDamage DEF Next

LEMMA StoreInit == Init => Store!Init
BY DEF Init, Store!Init, Offered

(* The cache keeps the promise of ArtifactStore: entries appear whole and, *)
(* once their publisher has let them stand, only damage or read errors     *)
(* take them away.                                                         *)
THEOREM StoreImplemented == Spec => ImplementsStore
<1> QED
  BY StoreInit, StepOfNext, Invariance, PTL DEF Spec, Store!Spec, ImplementsStore
=============================================================================
