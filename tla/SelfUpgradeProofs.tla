-------------------------- MODULE SelfUpgradeProofs ---------------------------
(***************************************************************************)
(* What holds of every upgrade, whatever the release is, however often the *)
(* command or the host dies, host operations fail, operators cancel and    *)
(* retry, and however many failed boots make safe mode: the types, and     *)
(* that an interrupted attempt can be undone.                              *)
(***************************************************************************)
EXTENDS SelfUpgrade, TLAPS

Ledgers == [failures : 0..Threshold, healthy : BOOLEAN]
Places == {"down", "booting", "up", "safe", "crashed", "refused"}
Points == Steps \cup UndoSteps \cup EndSteps \cup {"idle"}

\* What the service does by itself, and what the host command makes it do.
ServiceStep ==
    Boots \/ SocketActivates \/ SafeModeRetry \/ Writes("after") \/ Stops \/ Restarts

-----------------------------------------------------------------------------
(* Types.                                                                  *)

LEMMA NoneAndTorn == NoDatabase \in Databases /\ TornDatabase \in Databases
  BY DEF NoDatabase, TornDatabase, Databases, Rows

LEMMA DatabaseTyped ==
  ASSUME NEW d \in Databases, NEW s \in 0..3
  PROVE  /\ d.file \in {"ok", "none", "torn"} /\ d.schema \in 0..3 /\ d.rows \subseteq Rows
         /\ [d EXCEPT !.schema = s] \in Databases
         /\ [d EXCEPT !.file = "ok", !.schema = s] \in Databases
         /\ [d EXCEPT !.rows = @ \cup {"after"}] \in Databases
  <1>1. d.file \in {"ok", "none", "torn"} /\ d.schema \in 0..3 /\ d.rows \subseteq Rows
    BY DEF Databases
  <1>2. [d EXCEPT !.schema = s] \in Databases /\ [d EXCEPT !.file = "ok", !.schema = s] \in Databases
    BY DEF Databases
  <1>3. d.rows \cup {"after"} \in SUBSET Rows
    BY <1>1 DEF Rows
  <1>4. [d EXCEPT !.rows = @ \cup {"after"}] \in Databases
    BY <1>1, <1>3 DEF Databases
  <1> QED
    BY <1>1, <1>2, <1>4

LEMMA HeadsAreSchemas == Head(Old) = 1 /\ Head(New) = 3 /\ \A r : Head(r) \in 0..3 /\ Midway \in 0..3
  BY DEF Head, Old, New, Midway

LEMMA LedgersAreTyped ==
  ASSUME NEW l \in Ledgers
  PROVE  /\ Begun(l) \in Ledgers /\ Clean(l) \in Ledgers /\ SafeModeLeft \in Ledgers
         /\ [failures |-> 0, healthy |-> TRUE] \in Ledgers
  <1>1. l.failures \in 0..Threshold /\ l.healthy \in BOOLEAN
    BY DEF Ledgers
  <1>2. Threshold \in Nat /\ Threshold > 0
    BY ThresholdAssumption
  <1>3. Begun(l) \in Ledgers
    BY <1>1, <1>2 DEF Begun, Ledgers
  <1>4. Clean(l) \in Ledgers
    BY <1>1 DEF Clean, Ledgers
  <1>5. SafeModeLeft \in Ledgers /\ [failures |-> 0, healthy |-> TRUE] \in Ledgers
    BY <1>2 DEF SafeModeLeft, Ledgers
  <1> QED
    BY <1>3, <1>4, <1>5

LEMMA StartsTyped ==
  ASSUME NEW l \in Ledgers, bin \in {Old, New}, Starts(l)
  PROVE  ledger' \in Ledgers /\ svc' \in Places /\ run' \in {Old, New}
  <1>1. ledger' \in Ledgers
    BY LedgersAreTyped DEF Starts
  <1> QED
    BY <1>1 DEF Starts, Places

LEMMA StopsTyped ==
  ASSUME BootTypeOK
  PROVE  LedgersAfterStop \subseteq Ledgers /\ DatabasesAfterStop \subseteq Databases
  <1>1. ledger \in Ledgers /\ db \in Databases
    BY DEF BootTypeOK, Ledgers
  <1>2. LedgersAfterStop \subseteq {ledger, Clean(ledger), SafeModeLeft}
    BY DEF LedgersAfterStop
  <1>3. DatabasesAfterStop \subseteq {db, [db EXCEPT !.schema = Midway]}
    BY DEF DatabasesAfterStop
  <1> QED
    BY <1>1, <1>2, <1>3, LedgersAreTyped, DatabaseTyped, HeadsAreSchemas

LEMMA ServiceTyped ==
  ASSUME BootTypeOK, ServiceStep
  PROVE  BootTypeOK'
  <1>1. /\ kind \in Kinds /\ svc \in Places /\ run \in {Old, New} /\ bin \in {Old, New}
        /\ ledger \in Ledgers /\ db \in Databases
    BY DEF BootTypeOK, Places, Ledgers
  <1>2. kind' = kind /\ bin' = bin
    BY DEF ServiceStep, Boots, BootCorrupt, BootRefused, MigrationFails, BootEnds, MarkHealthy,
           SystemdRestarts, SocketActivates, SafeModeRetry, Writes, Stops, Restarts
  <1>3. ledger' \in Ledgers /\ svc' \in Places /\ run' \in {Old, New} /\ db' \in Databases
    <2>1. CASE BootCorrupt \/ BootRefused
      BY <1>1, <2>1 DEF BootCorrupt, BootRefused, Places
    <2>2. CASE MigrationFails
      <3>1. PICK s \in {db.schema, Midway} : db' = [db EXCEPT !.schema = s]
        BY <2>2 DEF MigrationFails
      <3>2. db.schema \in 0..3 /\ Midway \in 0..3
        BY <1>1, DatabaseTyped, HeadsAreSchemas
      <3>3. db' \in Databases
        BY <1>1, <3>1, <3>2, DatabaseTyped
      <3> QED
        BY <1>1, <2>2, <3>3 DEF MigrationFails, Places
    <2>3. CASE BootEnds
      <3>1. db' \in Databases
        BY <1>1, <2>3, DatabaseTyped, HeadsAreSchemas DEF BootEnds, Opened
      <3> QED
        BY <1>1, <2>3, <3>1 DEF BootEnds, Places
    <2>4. CASE MarkHealthy
      BY <1>1, <2>4, LedgersAreTyped DEF MarkHealthy, Places
    <2>5. CASE SystemdRestarts \/ SocketActivates
      BY <1>1, <2>5, StartsTyped DEF SystemdRestarts, SocketActivates
    <2>6. CASE SafeModeRetry
      <3>1. [failures |-> 0, healthy |-> TRUE] \in Ledgers
        BY <1>1, LedgersAreTyped
      <3> QED
        BY <1>1, <2>6, <3>1, StartsTyped DEF SafeModeRetry
    <2>7. CASE Writes("after")
      <3>1. 0 \in 0..3
        OBVIOUS
      <3> QED
        BY <1>1, <2>7, <3>1, DatabaseTyped DEF Writes
    <2>8. CASE Stops
      BY <1>1, <2>8, StopsTyped DEF Stops, Places
    <2>9. CASE Restarts
      <3>1. PICK l \in LedgersAfterStop : Starts(l)
        BY <2>9 DEF Restarts
      <3>2. l \in Ledgers /\ db' \in Databases
        BY <2>9, StopsTyped DEF Restarts
      <3> QED
        BY <1>1, <3>1, <3>2, StartsTyped
    <2> QED
      BY <2>1, <2>2, <2>3, <2>4, <2>5, <2>6, <2>7, <2>8, <2>9 DEF ServiceStep, Boots
  <1> QED
    BY <1>1, <1>2, <1>3 DEF BootTypeOK, Places, Ledgers

LEMMA AttemptTyped ==
  ASSUME NEW a \in Attempts
  PROVE  /\ a.outcome \in Outcomes \cup {"none"} /\ a.past \in BOOLEAN /\ a.ok \in SUBSET Steps
         /\ a.prev \in BOOLEAN /\ a.snap \in BOOLEAN /\ a.restored \in BOOLEAN
         /\ NoAttempt \in Attempts /\ [NoAttempt EXCEPT !.outcome = "running"] \in Attempts
         /\ \A o \in Outcomes : [a EXCEPT !.outcome = o] \in Attempts
         /\ \A ok \in SUBSET Steps, past \in BOOLEAN : [a EXCEPT !.ok = ok, !.past = past] \in Attempts
         /\ \A has \in BOOLEAN : [a EXCEPT !.prev = TRUE, !.snap = has] \in Attempts
         /\ [a EXCEPT !.restored = TRUE] \in Attempts
  BY DEF Attempts, NoAttempt, Outcomes

LEMMA OnceTyped ==
  ASSUME used \in [Events -> Nat], NEW e \in Events, Once(e)
  PROVE  used' \in [Events -> Nat]
  BY DEF Once

\* What Record makes of a step that ended.
LEMMA RecordTyped ==
  ASSUME TypeOK, Record
  PROVE  pc' \in Points /\ ret' \in {"none", "ok"} \cup Outcomes /\ att' \in Attempts
  <1> DEFINE stopNow == cancelled /\ pc \notin Commits
             next == CASE ret = "ok" /\ ~stopNow -> After[pc]
                       [] ret = "ok" /\ pc = "check" -> "unstop"
                       [] pc \in {"verify", "backup", "check"} -> "tidy"
                       [] pc = "stop" -> "unstop"
                       [] OTHER -> "r_stop"
  <1>1. pc \in Steps /\ pc' = next
    BY DEF Record
  <1>2. After[pc] \in Points
    BY <1>1 DEF After, Steps, Points, EndSteps
  <1>3. next \in Points
    BY <1>2 DEF Points, EndSteps, UndoSteps
  <1>4. ret' \in {"none", "succeeded", "failed"}
    BY DEF Record
  <1>5. att' \in Attempts
    <2>1. att \in Attempts
      BY DEF TypeOK
    <2>2. PICK ok \in SUBSET Steps, past \in BOOLEAN : att' = [att EXCEPT !.ok = ok, !.past = past]
      <3> DEFINE ok == IF ret = "ok" THEN att.ok \cup {pc} ELSE att.ok
                 past == att.past \/ next \in Commits \cup {"r_stop"}
      <3>1. ok \in SUBSET Steps
        BY <1>1, <2>1, AttemptTyped
      <3>2. past \in BOOLEAN
        OBVIOUS
      <3>3. att' = [att EXCEPT !.ok = ok, !.past = past]
        BY DEF Record
      <3> QED
        BY <3>1, <3>2, <3>3
    <2> QED
      BY <2>1, <2>2, AttemptTyped
  <1> QED
    BY <1>1, <1>3, <1>4, <1>5 DEF Outcomes

\* The types of what the host command works on, the service apart.
HostTypeOK ==
    /\ site \in Sites /\ pc \in Points /\ ret \in {"none", "ok"} \cup Outcomes
    /\ att \in Attempts /\ disk \in Attempts /\ self \in {Old, New} /\ cancelled \in BOOLEAN
    /\ prev \in BOOLEAN /\ snap \in Databases /\ aside \in Databases /\ tried \in BOOLEAN
    /\ used \in [Events -> Nat]

LEMMA TypesSplit == TypeOK <=> BootTypeOK /\ HostTypeOK
  BY DEF TypeOK, HostTypeOK, Points

LEMMA TypesSplitNext == TypeOK' <=> BootTypeOK' /\ HostTypeOK'
  BY DEF TypeOK, HostTypeOK, Points

\* No step of the program touches another part of the service than these.
LEMMA BootSame ==
  ASSUME BootTypeOK, UNCHANGED bootVars
  PROVE  BootTypeOK'
  BY DEF BootTypeOK, bootVars

\* Swapping, renaming, copying and importing write the binary and the database only.
LEMMA BootFiles ==
  ASSUME BootTypeOK, UNCHANGED <<kind, svc, run, ledger>>, bin' \in {Old, New}, db' \in Databases
  PROVE  BootTypeOK'
  BY DEF BootTypeOK

LEMMA TypeInit == Init => TypeOK
  <1> SUFFICES ASSUME Init PROVE TypeOK
    OBVIOUS
  <1>1. kind \in Kinds
    BY SiteAssumption DEF Init, SiteType
  <1>2. db \in Databases
    BY DEF Init, BootInit, Databases, Head, Old, Rows
  <1>3. ledger \in Ledgers
    BY ThresholdAssumption DEF Init, BootInit, Ledgers
  <1>4. BootTypeOK
    BY <1>1, <1>2, <1>3 DEF Init, BootInit, BootTypeOK, Ledgers
  <1>5. HostTypeOK
    <2>1. NoAttempt \in Attempts
      BY DEF NoAttempt, Attempts
    <2>2. pc \in Points /\ ret \in {"none", "ok"} \cup Outcomes /\ used \in [Events -> Nat]
      BY DEF Init, Points
    <2> QED
      BY <2>1, <2>2, NoneAndTorn DEF Init, HostTypeOK
  <1> QED
    BY <1>4, <1>5, TypesSplit

\* An attempt is closed with an outcome, and one that is final.
Closing == pc \in {"close", "tidy"} => ret \in Outcomes \ {"running"}

LEMMA TypeStep ==
  ASSUME TypeOK, Closing, Next
  PROVE  TypeOK'
  <1>1. BootTypeOK /\ HostTypeOK
    BY TypesSplit
  <1>2. site' \in Sites
    BY <1>1 DEF Next, HostTypeOK
  <1> USE <1>1, <1>2
  <1>3. NoAttempt \in Attempts /\ NoDatabase \in Databases /\ TornDatabase \in Databases
    BY NoneAndTorn DEF NoAttempt, Attempts
  <1>4. ASSUME NEW p \in Points, NEW r \in {"none", "ok"} \cup Outcomes, Goto(p, r),
               UNCHANGED <<fileVars, tried>>, used' \in [Events -> Nat]
        PROVE  HostTypeOK'
    BY <1>4 DEF Goto, HostTypeOK, fileVars
  <1>5. ASSUME NEW r \in Outcomes, Closes(r), UNCHANGED <<prev, snap, tried>>, aside' \in Databases,
               used' \in [Events -> Nat]
        PROVE  HostTypeOK'
    BY <1>5 DEF Closes, HostTypeOK, Points, EndSteps
  <1>6. CASE Apply
    <2>1. att' \in Attempts
      BY <1>3, <1>6, AttemptTyped DEF Apply
    <2>2. HostTypeOK'
      BY <1>6, <2>1 DEF Apply, HostTypeOK, fileVars, Points, Steps
    <2> QED
      BY <1>6, <2>2, BootSame, TypesSplitNext DEF Apply
  <1>7. CASE Verify
    <2>1. HostTypeOK'
      BY <1>4, <1>7 DEF Verify, HostTypeOK, Points, Steps, EndSteps, Outcomes
    <2> QED
      BY <1>7, <2>1, BootSame, TypesSplitNext DEF Verify
  <1>8. CASE Backup
    <2>1. snap' \in Databases /\ used' \in [Events -> Nat]
      BY <1>8, OnceTyped DEF Backup, HostTypeOK, BootTypeOK, Events
    <2>2. att' \in Attempts
      BY <1>8, AttemptTyped DEF Backup, HostTypeOK
    <2>3. HostTypeOK'
      BY <1>8, <2>1, <2>2 DEF Backup, HostTypeOK
    <2> QED
      BY <1>8, <2>3, BootSame, TypesSplitNext DEF Backup
  <1>9. CASE MigrationCheck \/ Health
    <2>1. HostTypeOK'
      BY <1>4, <1>9 DEF MigrationCheck, Health, Returns, HostTypeOK, Outcomes
    <2> QED
      BY <1>9, <2>1, BootSame, TypesSplitNext DEF MigrationCheck, Health
  <1>10. CASE Stop \/ Start
    <2>1. HostTypeOK'
      BY <1>4, <1>10 DEF Stop, Start, Returns, HostTypeOK, Outcomes
    <2> QED
      BY <1>10, <2>1, ServiceTyped, TypesSplitNext DEF Stop, Start, ServiceStep
  <1>11. CASE Swap
    <2>1. HostTypeOK'
      BY <1>11 DEF Swap, Returns, Goto, HostTypeOK, fileVars
    <2>2. BootTypeOK'
      BY <1>11, BootFiles DEF Swap, BootTypeOK
    <2> QED
      BY <2>1, <2>2, TypesSplitNext
  <1>12. CASE Record
    <2>1. HostTypeOK'
      BY <1>12, RecordTyped DEF Record, HostTypeOK, fileVars
    <2> QED
      BY <1>12, <2>1, BootSame, TypesSplitNext DEF Record
  <1>13. CASE Fails({"backup", "check", "stop", "swap", "start"})
    <2>1. HostTypeOK'
      BY <1>4, <1>13, OnceTyped DEF Fails, Returns, HostTypeOK, Outcomes, Events
    <2> QED
      BY <1>13, <2>1, BootSame, TypesSplitNext DEF Fails
  <1>14. CASE RollbackStop
    <2>1. used' \in [Events -> Nat]
      BY <1>14, OnceTyped DEF RollbackStop, HostTypeOK, Events
    <2>2. HostTypeOK'
      BY <1>4, <1>14, <2>1 DEF RollbackStop, Points, UndoSteps
    <2>3. BootTypeOK'
      BY <1>14, BootSame, ServiceTyped DEF RollbackStop, ServiceStep
    <2> QED
      BY <2>2, <2>3, TypesSplitNext
  <1>15. CASE RollbackSwap
    <2>1. HostTypeOK'
      BY <1>4, <1>5, <1>15 DEF RollbackSwap, HostTypeOK, Points, UndoSteps, Outcomes, fileVars
    <2>2. BootTypeOK'
      BY <1>15, BootFiles DEF RollbackSwap, BootTypeOK
    <2> QED
      BY <2>1, <2>2, TypesSplitNext
  <1>16. CASE RollbackDatabase
    <2>1. db' \in Databases /\ aside' \in Databases
      BY <1>3, <1>16 DEF RollbackDatabase, BootTypeOK, HostTypeOK
    <2>2. HostTypeOK'
      BY <1>5, <1>16, <2>1 DEF RollbackDatabase, Goto, HostTypeOK, Points, UndoSteps, Outcomes
    <2>3. BootTypeOK'
      BY <1>16, <2>1, BootFiles DEF RollbackDatabase, BootTypeOK
    <2> QED
      BY <2>2, <2>3, TypesSplitNext
  <1>17. CASE RollbackCreate
    <2>1. db' \in Databases /\ aside' \in Databases
      BY <1>3, <1>17 DEF RollbackCreate, BootTypeOK, HostTypeOK
    <2>2. HostTypeOK'
      BY <1>5, <1>17, <2>1 DEF RollbackCreate, Goto, HostTypeOK, Points, UndoSteps, Outcomes
    <2>3. BootTypeOK'
      BY <1>17, <2>1, BootFiles DEF RollbackCreate, BootTypeOK
    <2> QED
      BY <2>2, <2>3, TypesSplitNext
  <1>18. CASE RollbackCopy
    <2>1. att' \in Attempts
      BY <1>18, AttemptTyped DEF RollbackCopy, HostTypeOK
    <2>2. HostTypeOK'
      BY <1>18, <2>1 DEF RollbackCopy, HostTypeOK, Points, UndoSteps, fileVars
    <2>3. BootTypeOK'
      BY <1>18, BootFiles DEF RollbackCopy, BootTypeOK, HostTypeOK
    <2> QED
      BY <2>2, <2>3, TypesSplitNext
  <1>19. CASE RollbackStart
    <2>1. HostTypeOK'
      BY <1>4, <1>19 DEF RollbackStart, HostTypeOK, Points, UndoSteps
    <2> QED
      BY <1>19, <2>1, ServiceTyped, TypesSplitNext DEF RollbackStart, ServiceStep
  <1>20. CASE RollbackWait
    <2>1. HostTypeOK'
      BY <1>5, <1>20 DEF RollbackWait, HostTypeOK, Points, EndSteps, Outcomes, fileVars
    <2> QED
      BY <1>20, <2>1, BootSame, TypesSplitNext DEF RollbackWait
  <1>21. CASE RollbackFails
    <2>1. db' \in Databases /\ aside' \in Databases /\ used' \in [Events -> Nat]
      BY <1>3, <1>21, OnceTyped DEF RollbackFails, BootTypeOK, HostTypeOK, Events
    <2>2. HostTypeOK'
      BY <1>5, <1>21, <2>1 DEF RollbackFails, Outcomes
    <2>3. BootTypeOK'
      BY <1>21, <2>1, BootFiles DEF RollbackFails, BootTypeOK
    <2> QED
      BY <2>2, <2>3, TypesSplitNext
  <1>22. CASE Unstop
    <2>1. used' \in [Events -> Nat]
      BY <1>22, OnceTyped DEF Unstop, HostTypeOK, Events
    <2>2. HostTypeOK'
      BY <1>4, <1>22, <2>1 DEF Unstop, Points, EndSteps, Outcomes
    <2>3. BootTypeOK'
      BY <1>22, BootSame, ServiceTyped DEF Unstop, ServiceStep
    <2> QED
      BY <2>2, <2>3, TypesSplitNext
  <1>23. CASE Tidy
    <2>1. prev' \in BOOLEAN
      BY <1>23 DEF Tidy
    <2>2. HostTypeOK'
      BY <1>23, <2>1 DEF Tidy, Goto, HostTypeOK, Points, EndSteps
    <2> QED
      BY <1>23, <2>2, BootSame, TypesSplitNext DEF Tidy
  <1>24. CASE Close
    <2>1. ret \in Outcomes
      BY <1>24 DEF Close, Closing
    <2>2. att' \in Attempts
      BY <1>24, <2>1, AttemptTyped DEF Close, HostTypeOK
    <2>3. HostTypeOK'
      BY <1>24, <2>2 DEF Close, HostTypeOK, Points, EndSteps, fileVars
    <2> QED
      BY <1>24, <2>3, BootSame, TypesSplitNext DEF Close
  <1>25. CASE Import
    <2>1. db' \in Databases
      BY <1>25, DatabaseTyped, HeadsAreSchemas DEF Import, BootTypeOK
    <2>2. HostTypeOK'
      BY <1>4, <1>25 DEF Import, HostTypeOK, Points
    <2>3. BootTypeOK'
      BY <1>25, <2>1, BootFiles DEF Import, BootTypeOK
    <2> QED
      BY <2>2, <2>3, TypesSplitNext
  <1>26. CASE Recover
    <2>1. att' \in Attempts /\ disk' \in Attempts
      BY <1>26, AttemptTyped DEF Recover, Recovers, HostTypeOK, Outcomes
    <2>2. self' \in {Old, New} /\ cancelled' \in BOOLEAN
      BY <1>26 DEF Recover, Recovers, BootTypeOK
    <2>3. pc' \in Points /\ ret' \in {"none", "ok"} \cup Outcomes
      BY <1>26 DEF Recover, Recovers, Points, UndoSteps, EndSteps, Outcomes
    <2>4. HostTypeOK'
      BY <1>26, <2>1, <2>2, <2>3 DEF Recover, Recovers, HostTypeOK, fileVars
    <2> QED
      BY <1>26, <2>4, BootSame, TypesSplitNext DEF Recover, Recovers
  <1>27. CASE Reap
    <2>1. disk' \in Attempts
      BY <1>27, AttemptTyped DEF Reap, HostTypeOK, Outcomes
    <2>2. HostTypeOK'
      BY <1>27, <2>1 DEF Reap, HostTypeOK, fileVars
    <2> QED
      BY <1>27, <2>2, BootSame, TypesSplitNext DEF Reap
  <1>28. CASE Cancel
    <2>1. HostTypeOK'
      BY <1>28, OnceTyped DEF Cancel, HostTypeOK, fileVars, Events
    <2> QED
      BY <1>28, <2>1, BootSame, TypesSplitNext DEF Cancel
  <1>29. CASE Kill \/ PowerCut
    <2>1. used' \in [Events -> Nat]
      BY <1>29, OnceTyped DEF Kill, PowerCut, HostTypeOK, Events
    <2>2. HostTypeOK'
      BY <1>3, <1>29, <2>1 DEF Kill, PowerCut, Dies, HostTypeOK, Points, fileVars
    <2>3. BootTypeOK'
      BY <1>29 DEF Kill, PowerCut, BootTypeOK, bootVars
    <2> QED
      BY <2>2, <2>3, TypesSplitNext
  <1>30. CASE Service /\ UNCHANGED <<hostVars, fileVars, tried>>
    <2>1. used' \in [Events -> Nat]
      BY <1>30, OnceTyped DEF Service, HostTypeOK, Events
    <2>2. HostTypeOK'
      BY <1>30, <2>1 DEF HostTypeOK, hostVars, fileVars
    <2>3. BootTypeOK'
      BY <1>30, ServiceTyped DEF Service, ServiceStep
    <2> QED
      BY <2>2, <2>3, TypesSplitNext
  <1> QED
    BY <1>6, <1>7, <1>8, <1>9, <1>10, <1>11, <1>12, <1>13, <1>14, <1>15, <1>16, <1>17, <1>18,
       <1>19, <1>20, <1>21, <1>22, <1>23, <1>24, <1>25, <1>26, <1>27, <1>28, <1>29, <1>30
       DEF Next, Host, HostFaults

LEMMA ClosingStep ==
  ASSUME Closing, Next
  PROVE  Closing'
  <1>1. CASE Apply \/ Backup \/ Swap \/ Stop \/ Start
    BY <1>1 DEF Apply, Backup, Swap, Stop, Start, Returns, Goto, Closing
  <1>2. CASE Verify \/ MigrationCheck \/ Health \/ Fails({"backup", "check", "stop", "swap", "start"})
    BY <1>2 DEF Verify, MigrationCheck, Health, Fails, Returns, Goto, Closing, Outcomes
  <1>3. CASE Record
    <2>1. pc \in Steps /\ pc' \in {"close", "tidy"} => ret' \in {"succeeded", "failed"}
      BY <1>3 DEF Record, EndSteps
    <2> QED
      BY <1>3, <2>1 DEF Record, Closing, Outcomes
  <1>4. CASE RollbackStop \/ RollbackSwap \/ RollbackDatabase \/ RollbackCreate \/ RollbackCopy
    BY <1>4 DEF RollbackStop, RollbackSwap, RollbackDatabase, RollbackCreate, RollbackCopy, Closes,
                Goto, Closing, Outcomes
  <1>5. CASE RollbackStart \/ RollbackWait \/ RollbackFails \/ Unstop \/ Tidy
    BY <1>5 DEF RollbackStart, RollbackWait, RollbackFails, Unstop, Tidy, Closes, Goto, Closing, Outcomes
  <1>6. CASE Close \/ Import \/ Recover \/ Reap \/ Cancel
    BY <1>6 DEF Close, Import, Recover, Recovers, Reap, Cancel, Goto, Closing
  <1>7. CASE Kill \/ PowerCut \/ UNCHANGED hostVars
    BY <1>7 DEF Kill, PowerCut, Dies, hostVars, Closing
  <1> QED
    BY <1>1, <1>2, <1>3, <1>4, <1>5, <1>6, <1>7 DEF Next, Host, HostFaults

-----------------------------------------------------------------------------
(* An attempt that may have to be undone can be.                           *)

\* The old release is what is installed and what runs, and the database is its own.
Back == run = Old /\ bin = Old /\ db.file = "ok" /\ db.schema = Head(Old)

\* What the command has in memory is what the journal says, but for what a backup that
\* returned has made and for what a copy that returned has restored.
Agree ==
    pc # "idle" =>
        /\ att.outcome = disk.outcome /\ att.ok = disk.ok
        /\ ~(pc = "backup" /\ ret = "ok") => att.prev = disk.prev /\ att.snap = disk.snap

\* Before the new release is in place nothing of the old one has changed.
Untouched == ~tried => Back /\ "before" \in db.rows

Ordered ==
    /\ pc \in {"verify", "backup", "check", "stop", "unstop"} => ~tried
    /\ pc = "swap" /\ ret # "ok" => ~tried
    /\ pc \in {"r_create", "r_copy"} => tried

\* The journal has the stop before the swap, and the previous binary before the stop.
Journaled ==
    /\ tried => "stop" \in disk.ok
    /\ "stop" \in disk.ok => disk.prev
    /\ pc \in {"swap", "start", "health"} \cup UndoSteps => "stop" \in disk.ok

\* A snapshot has what the old release had recorded, and is there when an attempt says so.
SnapshotGood ==
    /\ snap.file = "ok" => "before" \in snap.rows
    /\ att.snap \/ disk.snap => snap.file = "ok"

\* The previous binary is there from the backup until the end, and is put back from itself.
PrevKept ==
    /\ pc \in {"check", "stop", "swap", "start", "health"} \/ (pc = "backup" /\ ret = "ok")
          => att.prev /\ prev
    /\ pc \in UndoSteps \ {"r_stop", "r_swap"} => prev /\ bin = Old

\* The previous binary goes when the old release serves again, or was never replaced.
Returned ==
    /\ pc = "r_wait" => run = Old /\ (svc = "up" => Back)
    /\ pc = "tidy" /\ Running => Back
    /\ Running /\ "health" \notin disk.ok => prev \/ Back

Undoable ==
    Agree /\ Untouched /\ Ordered /\ Journaled /\ SnapshotGood /\ PrevKept /\ Returned

\* Whatever the service does, the old release on its own database stays that.
LEMMA BackStays ==
  ASSUME db \in Databases, Back, ServiceStep
  PROVE  Back' /\ ("before" \in db.rows => "before" \in db'.rows)
  <1> USE DEF Back, Head, Old, New
  <1>1. CASE BootCorrupt \/ BootRefused \/ MarkHealthy
    BY <1>1 DEF BootCorrupt, BootRefused, MarkHealthy
  <1>2. CASE MigrationFails
    BY <1>2 DEF MigrationFails
  <1>3. CASE BootEnds
    BY <1>3 DEF BootEnds, Opened
  <1>4. CASE SystemdRestarts \/ SocketActivates \/ SafeModeRetry
    BY <1>4 DEF SystemdRestarts, SocketActivates, SafeModeRetry, Starts
  <1>5. CASE Stops
    BY <1>5 DEF Stops, DatabasesAfterStop
  <1>6. CASE Restarts
    BY <1>6 DEF Restarts, Starts, DatabasesAfterStop
  <1>7. CASE Writes("after")
    <2>1. db'.file = db.file /\ db'.schema = db.schema /\ db.rows \subseteq db'.rows
      BY <1>7 DEF Writes, Databases
    <2> QED
      BY <1>7, <2>1 DEF Writes
  <1> QED
    BY <1>1, <1>2, <1>3, <1>4, <1>5, <1>6, <1>7 DEF ServiceStep, Boots

\* A service that runs the installed old release comes up on a database of its own.
LEMMA ComesBack ==
  ASSUME bin = Old, run = Old, svc = "up" => Back, ServiceStep, db \in Databases
  PROVE  bin' = Old /\ run' = Old /\ (svc' = "up" => Back')
  <1> USE DEF Back, Head, Old, New
  <1>1. CASE BootCorrupt \/ BootRefused \/ MarkHealthy
    BY <1>1 DEF BootCorrupt, BootRefused, MarkHealthy
  <1>2. CASE MigrationFails
    BY <1>2 DEF MigrationFails
  <1>3. CASE BootEnds
    BY <1>3 DEF BootEnds, Opened
  <1>4. CASE SystemdRestarts \/ SocketActivates \/ SafeModeRetry
    BY <1>4 DEF SystemdRestarts, SocketActivates, SafeModeRetry, Starts
  <1>5. CASE Stops
    BY <1>5 DEF Stops
  <1>6. CASE Restarts
    BY <1>6 DEF Restarts, Starts
  <1>7. CASE Writes("after")
    <2>1. db'.file = db.file /\ db'.schema = db.schema /\ db.rows \subseteq db'.rows
      BY <1>7 DEF Writes, Databases
    <2> QED
      BY <1>7, <2>1 DEF Writes
  <1> QED
    BY <1>1, <1>2, <1>3, <1>4, <1>5, <1>6, <1>7 DEF ServiceStep, Boots

LEMMA ServiceLeavesBin ==
  ASSUME ServiceStep
  PROVE  bin' = bin
  BY DEF ServiceStep, Boots, BootCorrupt, BootRefused, MigrationFails, BootEnds, MarkHealthy,
         SystemdRestarts, SocketActivates, SafeModeRetry, Writes, Stops, Restarts

LEMMA UndoableStep ==
  ASSUME TypeOK, Closing, Undoable, Next
  PROVE  Undoable'
  <1>1. /\ db \in Databases /\ snap \in Databases /\ aside \in Databases
        /\ att \in Attempts /\ disk \in Attempts
    BY DEF TypeOK, BootTypeOK
  <1> USE <1>1 DEF Undoable, Agree, Untouched, Ordered, Journaled, SnapshotGood, PrevKept, Returned, Running
  <1>2. CASE Apply
    <2>1. /\ att'.outcome = "running" /\ att'.ok = {} /\ ~att'.prev /\ ~att'.snap /\ disk' = att'
          /\ disk.ok = {}
      BY <1>2 DEF Apply, NoAttempt
    <2> QED
      BY <1>2, <2>1 DEF Apply, UndoSteps, fileVars, bootVars, Back
  <1>3. CASE Verify
    BY <1>3 DEF Verify, Goto, UndoSteps, fileVars, bootVars, Back
  <1>4. CASE Backup
    <2>1. /\ att'.outcome = att.outcome /\ att'.ok = att.ok /\ att'.prev
          /\ att'.snap => snap'.file = "ok"
      BY <1>4 DEF Backup, Attempts
    <2>2. /\ Back' /\ "before" \in db'.rows /\ UNCHANGED <<disk, tried>>
          /\ prev' /\ pc' = "backup" /\ ret' = "ok"
      BY <1>4 DEF Backup, bootVars, Back
    <2>3. Untouched' /\ Ordered' /\ Journaled' /\ Returned'
      BY <1>4, <2>2 DEF Backup, UndoSteps
    <2>4. Agree' /\ PrevKept'
      BY <1>4, <2>1, <2>2 DEF Backup, UndoSteps
    <2>5. SnapshotGood'
      BY <1>4, <2>1, <2>2 DEF Backup
    <2> QED
      BY <2>3, <2>4, <2>5
  <1>5. CASE MigrationCheck
    BY <1>5 DEF MigrationCheck, Returns, Goto, fileVars, bootVars, Back
  <1>6. CASE Stop
    BY <1>6, BackStays, ComesBack, ServiceLeavesBin DEF ServiceStep, Service, Stop, Returns, Goto, fileVars
  <1>7. CASE Swap
    BY <1>7 DEF Swap, Returns, Goto, fileVars, UndoSteps, Back
  <1>8. CASE Start
    BY <1>8, BackStays, ComesBack, ServiceLeavesBin DEF ServiceStep, Service, Start, Returns, Goto, fileVars, UndoSteps
  <1>9. CASE Health
    BY <1>9 DEF Health, Returns, Goto, fileVars, bootVars, Back
  <1>10. CASE Record
    BY <1>10 DEF Record, fileVars, bootVars, Back, Steps, After, UndoSteps, EndSteps, Commits, Attempts
  <1>11. CASE Fails({"backup", "check", "stop", "swap", "start"})
    BY <1>11 DEF Fails, Returns, Goto, fileVars, bootVars, Back
  <1>12. CASE RollbackStop
    <2>1. /\ bin' = bin /\ (Back => Back') /\ ("before" \in db.rows /\ Back => "before" \in db'.rows)
          /\ pc' = "r_swap"
      BY <1>12, BackStays, ServiceLeavesBin DEF RollbackStop, ServiceStep, Goto, bootVars, Back
    <2> QED
      BY <1>12, <2>1 DEF RollbackStop, Goto, fileVars, UndoSteps
  <1>13. CASE RollbackSwap
    BY <1>13 DEF RollbackSwap, Goto, Closes, fileVars, UndoSteps, Back
  <1>14. CASE RollbackDatabase
    BY <1>14 DEF RollbackDatabase, SchemaChanged, Goto, Closes, UndoSteps, Back
  <1>15. CASE RollbackCreate
    BY <1>15 DEF RollbackCreate, Goto, Closes, UndoSteps, Back
  <1>16. CASE RollbackCopy
    BY <1>16 DEF RollbackCopy, fileVars, UndoSteps, Attempts, Back
  <1>17. CASE RollbackStart
    <2>1. /\ bin' = bin /\ (Back => Back') /\ ("before" \in db.rows /\ Back => "before" \in db'.rows)
          /\ pc' = "r_wait" /\ run' = bin /\ svc' # "up"
      BY <1>17, BackStays, ServiceLeavesBin DEF RollbackStart, ServiceStep, Restarts, Starts, Goto
    <2> QED
      BY <1>17, <2>1 DEF RollbackStart, Goto, fileVars, UndoSteps
  <1>18. CASE RollbackWait
    BY <1>18 DEF RollbackWait, Ready, Goto, Closes, fileVars, bootVars, UndoSteps, Back
  <1>19. CASE RollbackFails
    BY <1>19 DEF RollbackFails, Goto, Closes, UndoSteps, Back
  <1>20. CASE Unstop
    <2>1. /\ bin' = bin /\ (Back => Back') /\ ("before" \in db.rows /\ Back => "before" \in db'.rows)
      BY <1>20, BackStays, ServiceLeavesBin DEF Unstop, ServiceStep, bootVars, Back
    <2> QED
      BY <1>20, <2>1 DEF Unstop, Goto, fileVars, UndoSteps
  <1>21. CASE Tidy
    BY <1>21 DEF Tidy, Goto, bootVars, UndoSteps, Back
  <1>22. CASE Close
    <2>1. /\ att'.ok = att.ok /\ att'.prev = att.prev /\ att'.snap = att.snap /\ att'.outcome = ret
          /\ disk' = att' /\ (att'.snap => att.snap)
      BY <1>22 DEF Close, Attempts
    <2>2. /\ Back' <=> Back
          /\ UNCHANGED <<db, prev, snap, tried, bin>> /\ pc' \in {"tidy", "import"}
          /\ pc' = "tidy" => ret = "succeeded"
      BY <1>22 DEF Close, bootVars, fileVars, Back
    <2>3. Agree' /\ Untouched' /\ Ordered' /\ PrevKept' /\ SnapshotGood'
      BY <1>22, <2>1, <2>2 DEF Close, UndoSteps
    <2>4. Journaled'
      BY <1>22, <2>1, <2>2 DEF Close, UndoSteps
    <2>5. Returned'
      <3>1. ret # "running"
        BY <1>22 DEF Close, Closing
      <3> QED
        BY <1>22, <2>1, <2>2, <3>1
    <2> QED
      BY <2>3, <2>4, <2>5
  <1>23. CASE Import
    BY <1>23 DEF Import, Goto, fileVars, UndoSteps, Back
  <1>24. CASE Recover
    BY <1>24 DEF Recover, Recovers, fileVars, bootVars, UndoSteps, Attempts, Back
  <1>25. CASE Reap
    BY <1>25 DEF Reap, fileVars, bootVars, UndoSteps, Attempts, Back
  <1>26. CASE Cancel
    BY <1>26 DEF Cancel, fileVars, bootVars, Back
  <1>27. CASE Kill \/ PowerCut
    BY <1>27 DEF Kill, PowerCut, Dies, fileVars, bootVars, UndoSteps, NoAttempt, Back
  <1>28. CASE Service /\ UNCHANGED <<hostVars, fileVars, tried>>
    <2>1. ServiceStep
      BY <1>28 DEF Service, ServiceStep
    <2>2. /\ bin' = bin /\ (Back => Back') /\ ("before" \in db.rows /\ Back => "before" \in db'.rows)
      BY <2>1, BackStays, ServiceLeavesBin
    <2>3. pc = "r_wait" => run' = Old /\ (svc' = "up" => Back')
      BY <2>1, ComesBack DEF UndoSteps
    <2> QED
      BY <1>28, <2>2, <2>3 DEF hostVars, fileVars
  <1> QED
    BY <1>2, <1>3, <1>4, <1>5, <1>6, <1>7, <1>8, <1>9, <1>10, <1>11, <1>12, <1>13, <1>14, <1>15, <1>16, <1>17, <1>18, <1>19, <1>20, <1>21, <1>22, <1>23, <1>24, <1>25, <1>26, <1>27, <1>28 DEF Next, Host, HostFaults

-----------------------------------------------------------------------------
(* The outcome that is stated is true, and what comes after it is kept.    *)

\* The new release is what is installed and what runs, and the database is migrated.
Front == run = New /\ bin = New /\ db.file = "ok" /\ db.schema = Head(New)

Forward ==
    /\ pc \in {"swap", "start", "health"} => db.file = "ok" /\ "before" \in db.rows
    /\ (pc = "swap" /\ ret = "ok") \/ pc \in {"start", "health"} => bin = New
    /\ (pc = "start" /\ ret = "ok") \/ pc = "health" => run = New
    /\ pc = "health" /\ ret = "ok" => Front
    /\ pc \in Steps \cup UndoSteps \cup {"unstop", "resume"} => "health" \notin disk.ok

Stated ==
    /\ Running /\ "health" \in disk.ok => Front /\ "before" \in db.rows
    /\ pc = "close" /\ ret = "succeeded" => "health" \in disk.ok
    /\ pc \in {"close", "tidy"} /\ ret = "rolled_back" => Back

\* What the old release records after it was put back is in no other database.
Later ==
    /\ "after" \in db.rows => Back /\ tried
    /\ "after" \notin aside.rows /\ "after" \notin snap.rows
    /\ pc \in {"r_create", "r_copy"} => db.rows = {}

Truthful == Forward /\ Stated /\ Later

LEMMA RowsStay ==
  ASSUME db \in Databases, ServiceStep
  PROVE  /\ db.rows \subseteq db'.rows /\ (db.file = "ok" => db'.file = "ok")
         /\ Writes("after") \/ db'.rows = db.rows
  <1> USE DEF Databases
  <1>1. CASE BootCorrupt \/ BootRefused \/ MarkHealthy \/ SystemdRestarts \/ SocketActivates \/ SafeModeRetry
    BY <1>1 DEF BootCorrupt, BootRefused, MarkHealthy, SystemdRestarts, SocketActivates, SafeModeRetry
  <1>2. CASE MigrationFails \/ BootEnds
    BY <1>2 DEF MigrationFails, BootEnds, Opened
  <1>3. CASE Stops \/ Restarts
    BY <1>3 DEF Stops, Restarts, DatabasesAfterStop
  <1>4. CASE Writes("after")
    BY <1>4 DEF Writes
  <1> QED
    BY <1>1, <1>2, <1>3, <1>4 DEF ServiceStep, Boots

LEMMA NewStays ==
  ASSUME db \in Databases, bin = New, run = New, ServiceStep
  PROVE  run' = New /\ (Front => Front')
  <1> USE DEF Front, Head, Old, New
  <1>1. CASE BootCorrupt \/ BootRefused \/ MarkHealthy
    BY <1>1 DEF BootCorrupt, BootRefused, MarkHealthy
  <1>2. CASE MigrationFails
    BY <1>2 DEF MigrationFails
  <1>3. CASE BootEnds
    BY <1>3 DEF BootEnds, Opened
  <1>4. CASE SystemdRestarts \/ SocketActivates \/ SafeModeRetry
    BY <1>4 DEF SystemdRestarts, SocketActivates, SafeModeRetry, Starts
  <1>5. CASE Stops
    BY <1>5 DEF Stops, DatabasesAfterStop
  <1>6. CASE Restarts
    BY <1>6 DEF Restarts, Starts, DatabasesAfterStop
  <1>7. CASE Writes("after")
    <2>1. db'.file = db.file /\ db'.schema = db.schema
      BY <1>7 DEF Writes, Databases
    <2> QED
      BY <1>7, <2>1 DEF Writes
  <1> QED
    BY <1>1, <1>2, <1>3, <1>4, <1>5, <1>6, <1>7 DEF ServiceStep, Boots

LEMMA TruthfulStep ==
  ASSUME TypeOK, Closing, Undoable, Truthful, Next
  PROVE  Truthful'
  <1>1. /\ db \in Databases /\ snap \in Databases /\ aside \in Databases
        /\ att \in Attempts /\ disk \in Attempts
    BY DEF TypeOK, BootTypeOK
  <1> USE <1>1 DEF Undoable, Agree, Untouched, Ordered, Journaled, SnapshotGood, PrevKept, Returned,
                   Truthful, Forward, Stated, Later, Running
  <1>2. CASE Apply
    BY <1>2 DEF Apply, NoAttempt, fileVars, bootVars, UndoSteps, Steps, Back, Front
  <1>3. CASE Verify
    BY <1>3 DEF Verify, Goto, fileVars, bootVars, UndoSteps, Steps, Back, Front
  <1>4. CASE Backup
    BY <1>4 DEF Backup, Attempts, bootVars, UndoSteps, Steps, Back, Front
  <1>5. CASE MigrationCheck
    BY <1>5 DEF MigrationCheck, Returns, Goto, fileVars, bootVars, UndoSteps, Steps, Back, Front
  <1>6. CASE Stop
    <2>1. Stops
      BY <1>6 DEF Stop
    <2>2. /\ bin' = bin /\ (Back => Back') /\ db'.rows = db.rows
          /\ (db.file = "ok" => db'.file = "ok") /\ (Front => Front')
          /\ (bin = New /\ run = New => run' = New)
      <3>1. CASE Stops
        <4>1. db'.rows = db.rows
          BY <3>1 DEF Stops, DatabasesAfterStop, Databases
        <4> QED
          BY <3>1, <4>1, BackStays, RowsStay, NewStays, ServiceLeavesBin DEF ServiceStep, Front
      <3>2. CASE UNCHANGED bootVars
        BY <3>2 DEF bootVars, Back, Front
      <3> QED
        BY <2>1, <3>1, <3>2
    <2> QED
      BY <1>6, <2>2 DEF Stop, Returns, Goto, fileVars, UndoSteps, Steps
  <1>7. CASE Swap
    BY <1>7 DEF Swap, Returns, Goto, fileVars, UndoSteps, Steps, Back, Front, New, Old
  <1>8. CASE Start
    <2>1. Restarts
      BY <1>8 DEF Start
    <2>2. /\ bin' = bin /\ (Back => Back') /\ db'.rows = db.rows
          /\ (db.file = "ok" => db'.file = "ok") /\ (Front => Front')
          /\ (bin = New /\ run = New => run' = New)
      <3>1. CASE Restarts
        <4>1. db'.rows = db.rows
          BY <3>1 DEF Restarts, DatabasesAfterStop, Databases
        <4> QED
          BY <3>1, <4>1, BackStays, RowsStay, NewStays, ServiceLeavesBin DEF ServiceStep, Front
      <3>2. CASE UNCHANGED bootVars
        BY <3>2 DEF bootVars, Back, Front
      <3> QED
        BY <2>1, <3>1, <3>2
    <2> QED
      BY <1>8, <2>2 DEF Start, Restarts, Starts, Returns, Goto, fileVars, UndoSteps, Steps
  <1>9. CASE Health
    BY <1>9 DEF Health, Ready, Returns, Goto, fileVars, bootVars, Back, Front
  <1>10. CASE Record
    BY <1>10 DEF Record, fileVars, bootVars, Back, Front, Steps, After, UndoSteps, EndSteps, Commits, Attempts
  <1>11. CASE Fails({"backup", "check", "stop", "swap", "start"})
    BY <1>11 DEF Fails, Returns, Goto, fileVars, bootVars, UndoSteps, Steps, Back, Front
  <1>12. CASE RollbackStop
    <2>1. Stops \/ UNCHANGED bootVars
      BY <1>12 DEF RollbackStop
    <2>2. /\ bin' = bin /\ (Back => Back') /\ db'.rows = db.rows
          /\ (db.file = "ok" => db'.file = "ok") /\ (Front => Front')
          /\ (bin = New /\ run = New => run' = New)
      <3>1. CASE Stops
        <4>1. db'.rows = db.rows
          BY <3>1 DEF Stops, DatabasesAfterStop, Databases
        <4> QED
          BY <3>1, <4>1, BackStays, RowsStay, NewStays, ServiceLeavesBin DEF ServiceStep, Front
      <3>2. CASE UNCHANGED bootVars
        BY <3>2 DEF bootVars, Back, Front
      <3> QED
        BY <2>1, <3>1, <3>2
    <2> QED
      BY <1>12, <2>2 DEF RollbackStop, Goto, fileVars, UndoSteps, Steps
  <1>13. CASE RollbackSwap
    BY <1>13 DEF RollbackSwap, Goto, Closes, fileVars, UndoSteps, Steps, Back, Front, New, Old
  <1>14. CASE RollbackDatabase
    BY <1>14 DEF RollbackDatabase, SchemaChanged, NoDatabase, Goto, Closes, UndoSteps, Steps, Back, Front
  <1>15. CASE RollbackCreate
    BY <1>15 DEF RollbackCreate, NoDatabase, TornDatabase, Goto, Closes, UndoSteps, Steps, Back, Front
  <1>16. CASE RollbackCopy
    BY <1>16 DEF RollbackCopy, fileVars, UndoSteps, Steps, Attempts, Back, Front
  <1>17. CASE RollbackStart
    <2>1. Restarts
      BY <1>17 DEF RollbackStart
    <2>2. /\ bin' = bin /\ (Back => Back') /\ db'.rows = db.rows
          /\ (db.file = "ok" => db'.file = "ok") /\ (Front => Front')
          /\ (bin = New /\ run = New => run' = New)
      <3>1. CASE Restarts
        <4>1. db'.rows = db.rows
          BY <3>1 DEF Restarts, DatabasesAfterStop, Databases
        <4> QED
          BY <3>1, <4>1, BackStays, RowsStay, NewStays, ServiceLeavesBin DEF ServiceStep, Front
      <3>2. CASE UNCHANGED bootVars
        BY <3>2 DEF bootVars, Back, Front
      <3> QED
        BY <2>1, <3>1, <3>2
    <2> QED
      BY <1>17, <2>2 DEF RollbackStart, Goto, fileVars, UndoSteps, Steps
  <1>18. CASE RollbackWait
    BY <1>18 DEF RollbackWait, Ready, Goto, Closes, fileVars, bootVars, UndoSteps, Steps, Back, Front
  <1>19. CASE RollbackFails
    BY <1>19 DEF RollbackFails, NoDatabase, Goto, Closes, UndoSteps, Steps, Back, Front
  <1>20. CASE Unstop
    <2>1. Restarts \/ UNCHANGED bootVars
      BY <1>20 DEF Unstop
    <2>2. /\ bin' = bin /\ (Back => Back') /\ db'.rows = db.rows
          /\ (db.file = "ok" => db'.file = "ok") /\ (Front => Front')
          /\ (bin = New /\ run = New => run' = New)
      <3>1. CASE Restarts
        <4>1. db'.rows = db.rows
          BY <3>1 DEF Restarts, DatabasesAfterStop, Databases
        <4> QED
          BY <3>1, <4>1, BackStays, RowsStay, NewStays, ServiceLeavesBin DEF ServiceStep, Front
      <3>2. CASE UNCHANGED bootVars
        BY <3>2 DEF bootVars, Back, Front
      <3> QED
        BY <2>1, <3>1, <3>2
    <2> QED
      BY <1>20, <2>2 DEF Unstop, Goto, fileVars, UndoSteps, Steps
  <1>21. CASE Tidy
    BY <1>21 DEF Tidy, Goto, bootVars, UndoSteps, Steps, Back, Front
  <1>22. CASE Close
    BY <1>22 DEF Close, Closing, fileVars, bootVars, UndoSteps, Steps, Attempts, Back, Front
  <1>23. CASE Import
    BY <1>23 DEF Import, Goto, fileVars, UndoSteps, Steps, Back, Front
  <1>24. CASE Recover
    BY <1>24 DEF Recover, Recovers, fileVars, bootVars, UndoSteps, Steps, Attempts, Back, Front
  <1>25. CASE Reap
    BY <1>25 DEF Reap, fileVars, bootVars, UndoSteps, Steps, Attempts, Back, Front
  <1>26. CASE Cancel
    BY <1>26 DEF Cancel, fileVars, bootVars, Back, Front
  <1>27. CASE Kill \/ PowerCut
    BY <1>27 DEF Kill, PowerCut, Dies, fileVars, bootVars, UndoSteps, Steps, NoAttempt, Back, Front
  <1>28. CASE Service /\ UNCHANGED <<hostVars, fileVars, tried>>
    <2>1. ServiceStep /\ (Writes("after") => PutBack)
      <3>1. Writes("after") => ~(Boots \/ SocketActivates \/ SafeModeRetry)
        BY DEF Writes, Boots, BootCorrupt, BootRefused, MigrationFails, BootEnds, MarkHealthy,
               SystemdRestarts, SocketActivates, SafeModeRetry
      <3> QED
        BY <1>28, <3>1 DEF Service, ServiceStep
    <2>2. /\ bin' = bin /\ (Back => Back') /\ db.rows \subseteq db'.rows
          /\ (db.file = "ok" => db'.file = "ok") /\ (Front => Front')
          /\ (bin = New /\ run = New => run' = New)
      BY <2>1, BackStays, RowsStay, NewStays, ServiceLeavesBin DEF Front
    <2>3. CASE db'.rows = db.rows
      BY <1>28, <2>2, <2>3 DEF hostVars, fileVars
    <2>4. CASE Writes("after")
      <3>1. Back /\ tried /\ "before" \in db.rows
        BY <2>1, <2>4 DEF PutBack, Writes, Back
      <3> QED
        BY <1>28, <2>2, <3>1 DEF hostVars, fileVars
    <2> QED
      BY <2>1, <2>3, <2>4, RowsStay
  <1> QED
    BY <1>2, <1>3, <1>4, <1>5, <1>6, <1>7, <1>8, <1>9, <1>10, <1>11, <1>12, <1>13, <1>14, <1>15, <1>16, <1>17, <1>18, <1>19, <1>20, <1>21, <1>22, <1>23, <1>24, <1>25, <1>26, <1>27, <1>28 DEF Next, Host, HostFaults

-----------------------------------------------------------------------------
(* The theorems.                                                           *)

Inv == TypeOK /\ Closing /\ Undoable /\ Truthful

LEMMA InvInit == Init => Inv
  <1> SUFFICES ASSUME Init PROVE Inv
    OBVIOUS
  <1>1. TypeOK /\ Closing
    BY TypeInit DEF Init, Closing
  <1>2. att.ok = {} /\ disk.ok = {} /\ ~att.prev /\ ~att.snap /\ ~disk.snap /\ ~Running
    BY DEF Init, NoAttempt, Running
  <1>3. /\ Back /\ "before" \in db.rows /\ "after" \notin db.rows /\ ~tried /\ pc = "idle"
        /\ snap.file = "none" /\ snap.rows = {} /\ aside.rows = {}
    BY DEF Init, BootInit, Back, Head, Old, NoDatabase
  <1>4. Undoable
    BY <1>2, <1>3 DEF Undoable, Agree, Untouched, Ordered, Journaled, SnapshotGood, PrevKept, Returned,
                      UndoSteps
  <1>5. Truthful
    BY <1>2, <1>3 DEF Truthful, Forward, Stated, Later, Steps, UndoSteps
  <1> QED
    BY <1>1, <1>4, <1>5 DEF Inv

LEMMA InvStutter ==
  ASSUME Inv, UNCHANGED vars
  PROVE  Inv'
  <1> USE DEF vars, bootVars, hostVars, fileVars
  <1>1. TypeOK'
    BY DEF Inv, TypeOK, BootTypeOK
  <1>2. Closing'
    BY DEF Inv, Closing
  <1>3. Undoable'
    BY DEF Inv, Undoable, Agree, Untouched, Ordered, Journaled, SnapshotGood, PrevKept, Returned,
           Running, Back
  <1>4. Truthful'
    BY DEF Inv, Truthful, Forward, Stated, Later, Running, Back, Front
  <1> QED
    BY <1>1, <1>2, <1>3, <1>4 DEF Inv

LEMMA InvAlways == Spec => []Inv
  <1>1. Inv /\ [Next]_vars => Inv'
    <2> SUFFICES ASSUME Inv, [Next]_vars PROVE Inv'
      OBVIOUS
    <2>1. CASE Next
      BY <2>1, TypeStep, ClosingStep, UndoableStep, TruthfulStep DEF Inv
    <2>2. CASE UNCHANGED vars
      BY <2>2, InvStutter
    <2> QED
      BY <2>1, <2>2
  <1> QED
    BY InvInit, <1>1, PTL DEF Spec

\* Only a close, a recovery and the reaper give an attempt an outcome.
LEMMA WhoFinishes ==
  ASSUME Inv, Next, Finished
  PROVE  Close \/ Recover \/ Reap
  <1> USE DEF Finished, Running
  <1>1. Agree /\ att \in Attempts
    BY DEF Inv, Undoable, TypeOK
  <1>2. ~(Apply \/ Verify \/ Backup \/ MigrationCheck \/ Stop \/ Swap \/ Start \/ Health)
    BY DEF Apply, NoAttempt, Verify, Backup, MigrationCheck, Stop, Swap, Start, Health, Returns, Goto
  <1>3. ~Record
    <2>1. Record => disk'.outcome = att.outcome
      BY <1>1 DEF Record, Attempts
    <2> QED
      BY <1>1, <2>1 DEF Record, Agree, Steps
  <1>4. ~Fails({"backup", "check", "stop", "swap", "start"})
    BY DEF Fails, Returns, Goto
  <1>5. \A o : Closes(o) /\ pc # "idle" => disk'.outcome = disk.outcome
    BY <1>1 DEF Closes, Agree
  <1>6. ~(RollbackStop \/ RollbackSwap \/ RollbackDatabase \/ RollbackCreate \/ RollbackCopy)
    BY <1>5 DEF RollbackStop, RollbackSwap, RollbackDatabase, RollbackCreate, RollbackCopy, Goto
  <1>7. ~(RollbackStart \/ RollbackWait \/ RollbackFails \/ Unstop \/ Tidy \/ Import)
    BY <1>1, <1>5 DEF RollbackStart, RollbackWait, RollbackFails, Unstop, Tidy, Import, Goto, Agree
  <1>8. ~(Cancel \/ Kill \/ PowerCut \/ UNCHANGED hostVars)
    BY DEF Cancel, Kill, PowerCut, Dies, hostVars
  <1> QED
    BY <1>2, <1>3, <1>4, <1>6, <1>7, <1>8 DEF Next, Host, HostFaults

\* Every variable keeps its type: the journal never records what is not a step, the ledger's
\* count stays within its threshold, the database is one of the two schemas or between them.
THEOREM TypeCorrect == Spec => []TypeOK
  <1>1. Inv => TypeOK
    BY DEF Inv
  <1> QED
    BY <1>1, InvAlways, PTL

\* Whatever dies, fails or is cancelled, however often and when: while an attempt may have to
\* be undone, all that undoing it needs is journaled and kept (apply.go:211, runner.go:109).
THEOREM AlwaysRecoverable == Spec => []Recoverable
  <1>1. Inv => Recoverable
    <2> SUFFICES ASSUME Inv, Running, "health" \notin disk.ok, bin = New \/ SchemaChanged
                 PROVE  /\ "stop" \in disk.ok /\ disk.prev /\ prev
                        /\ disk.snap => snap.file = "ok" /\ "before" \in snap.rows
      BY DEF Recoverable
    <2>1. ~Back
      BY DEF Back, SchemaChanged, Old, New
    <2> QED
      BY <2>1 DEF Inv, Undoable, Untouched, Journaled, SnapshotGood, Returned
  <1> QED
    BY <1>1, InvAlways, PTL

\* An attempt that finishes, by itself, by a recovery or by the reaper, closes with the outcome
\* that is true of the host, whatever died on the way (apply.go:273).
THEOREM OutcomesAreTrue == Spec => OutcomeTrue
  <1> DEFINE True ==
        CASE disk'.outcome = "succeeded" -> bin' = New /\ "before" \in db'.rows /\ db'.schema = Head(New)
          [] disk'.outcome = "rolled_back" -> bin' = Old /\ db'.schema = Head(Old)
          [] "stop" \in disk.ok -> TRUE
          [] OTHER -> bin' = Old /\ db'.schema = Head(Old) /\ "before" \in db'.rows
  <1>1. ASSUME Inv, Next, Finished PROVE True
    <2>1. Close \/ Recover \/ Reap
      BY <1>1, WhoFinishes
    <2>2. bin' = bin /\ db' = db
      BY <2>1 DEF Close, Recover, Recovers, Reap, bootVars
    <2>3. "stop" \in disk.ok \/ (Back /\ "before" \in db.rows)
      BY <1>1 DEF Inv, Undoable, Journaled, Untouched
    <2>4. disk'.outcome = "succeeded" => Front /\ "before" \in db.rows
      <3>1. CASE Close
        <4>1. disk'.outcome = ret /\ pc = "close"
          BY <1>1, <3>1 DEF Close, Inv, TypeOK, Attempts
        <4> QED
          BY <1>1, <4>1 DEF Inv, Truthful, Stated, Finished
      <3>2. CASE Recover
        BY <1>1, <3>2 DEF Recover, Recovers, Inv, Truthful, Stated, Finished, Running
      <3>3. CASE Reap
        BY <1>1, <3>3 DEF Reap, Inv, TypeOK, Attempts
      <3> QED
        BY <2>1, <3>1, <3>2, <3>3
    <2>5. disk'.outcome = "rolled_back" => Back
      <3>1. CASE Close
        <4>1. disk'.outcome = ret /\ pc = "close"
          BY <1>1, <3>1 DEF Close, Inv, TypeOK, Attempts
        <4> QED
          BY <1>1, <4>1 DEF Inv, Truthful, Stated
      <3>2. CASE Recover \/ Reap
        BY <1>1, <3>2 DEF Recover, Recovers, Reap, Inv, TypeOK, Attempts, Finished, Running
      <3> QED
        BY <2>1, <3>1, <3>2
    <2> QED
      BY <2>2, <2>3, <2>4, <2>5 DEF Front, Back
  <1>2. Inv /\ [Next]_vars => [Finished => True]_vars
    BY <1>1
  <1>3. [][Finished => True]_vars <=> OutcomeTrue
    BY DEF OutcomeTrue
  <1> HIDE DEF True
  <1> QED
    BY <1>2, <1>3, InvAlways, PTL DEF Spec

\* No second recovery of an attempt, and nothing else, discards what the old release recorded
\* after it was put back (apply.go:301).
THEOREM LaterWritesKept == Spec => AfterKept
  <1>1. ASSUME Inv, [Next]_vars, db.file = "ok", "after" \in db.rows
        PROVE  "after" \in db'.rows
    <2>1. Back /\ tried /\ pc \notin {"r_create", "r_copy"} /\ db \in Databases
      BY <1>1 DEF Inv, Truthful, Later, TypeOK, BootTypeOK
    <2>2. CASE ServiceStep
      BY <1>1, <2>1, <2>2, RowsStay
    <2>3. CASE db' = db
      BY <1>1, <2>3
    <2>4. ~SchemaChanged
      BY <2>1 DEF Back, SchemaChanged
    <2>5. CASE RollbackDatabase \/ RollbackCreate \/ RollbackCopy \/ RollbackFails \/ Import
      BY <1>1, <2>1, <2>4, <2>5 DEF RollbackDatabase, RollbackCreate, RollbackCopy, RollbackFails, Import
    <2>6. ServiceStep \/ db' = db \/ RollbackDatabase \/ RollbackCreate \/ RollbackCopy \/ RollbackFails \/ Import
      BY <1>1 DEF Next, Host, HostFaults, Service, ServiceStep, vars, bootVars, Apply, Verify, Backup,
                  MigrationCheck, Stop, Swap, Start, Health, Record, Fails, RollbackStop, RollbackSwap,
                  RollbackStart, RollbackWait, Unstop, Tidy, Close, Recover, Recovers, Reap, Cancel, Kill, PowerCut
    <2> QED
      BY <2>2, <2>3, <2>5, <2>6
  <1>2. Inv /\ [Next]_vars => [db.file = "ok" /\ "after" \in db.rows => "after" \in db'.rows]_vars
    BY <1>1
  <1> QED
    BY <1>2, InvAlways, PTL DEF Spec, AfterKept
=============================================================================
