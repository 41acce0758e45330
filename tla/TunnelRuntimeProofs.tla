------------------------ MODULE TunnelRuntimeProofs -------------------------
(***************************************************************************)
(* The inductive invariant of TunnelRuntime and the safety properties that *)
(* follow from it, for every set of requests, stops and exits.             *)
(*                                                                         *)
(* The core of the invariant is LockDiscipline: from it follow the         *)
(* properties about live.  TokenHeld carries those about the cancellation  *)
(* token, Generations those about late signals, RouteRoles those about     *)
(* routes.                                                                 *)
(***************************************************************************)
EXTENDS TunnelRuntime, TLAPS

\* Every action keeps the types of the variables.
LEMMA TypeStep == ASSUME TypeOK, [Next]_vars PROVE TypeOK'
<1> USE DEF TypeOK, flagVars, hostVars, lockVars, asmVars, planeVars, histVars
<1>1. ASSUME NEW o \in Ops, StartRefused(o) PROVE TypeOK'
  BY <1>1 DEF StartRefused, AsmPcs
<1>2. ASSUME NEW o \in Ops, RefusalReported(o) PROVE TypeOK'
  BY <1>2 DEF RefusalReported, AsmPcs, Publish, Event, Phases, Callers
<1>3. ASSUME NEW o \in Ops, StartAdopted(o) PROVE TypeOK'
  BY <1>3 DEF StartAdopted, CanAdopt, IsConnected, AsmPcs, Publish, Event,
     Phases, Callers
<1>4. ASSUME NEW o \in Ops, StartAccepted(o) PROVE TypeOK'
  BY <1>4, ZenonT(40) DEF StartAccepted, AsmPcs
<1>5. ASSUME NEW o \in Ops, AsmBegin(o) PROVE TypeOK'
  BY <1>5 DEF AsmBegin, Goto, AsmPcs
<1>6. ASSUME NEW o \in Ops, AsmClear(o) PROVE TypeOK'
  BY <1>6, ZenonT(40) DEF AsmClear, TakeLive, Goto, AsmPcs, Threads
<1>7. ASSUME NEW o \in Ops, AsmPoisoned(o) PROVE TypeOK'
  BY <1>7 DEF AsmPoisoned, Goto, AsmPcs
<1>8. ASSUME NEW o \in Ops, AsmClearFailed(o) PROVE TypeOK'
  BY <1>8, Zenon DEF AsmClearFailed, RestoreOnError, Release, Goto, AsmPcs
<1>9. ASSUME NEW o \in Ops, AsmCleared(o) PROVE TypeOK'
  BY <1>9 DEF AsmCleared, RetryPending, Release, Goto, AsmPcs
<1>10. ASSUME NEW o \in Ops, AsmPreflight(o) PROVE TypeOK'
  BY <1>10 DEF AsmPreflight, Goto, AsmPcs, Publish, Event, Phases, Callers
<1>11. ASSUME NEW o \in Ops, AsmLogin(o) PROVE TypeOK'
  BY <1>11 DEF AsmLogin, Goto, AsmPcs, Publish, Event, Phases, Callers
<1>12. ASSUME NEW o \in Ops, AsmStage2(o) PROVE TypeOK'
  <2>1. CASE cancelFlag
    BY <1>12, <2>1 DEF AsmStage2, Goto, AsmPcs
  <2>2. CASE ~cancelFlag
    <3>1. latest' \in [op : Ops \cup Callers \cup {None}, phase : Phases]
      BY <1>12, <2>2 DEF AsmStage2, Publish, Event, Phases
    <3>2. asm' \in [Ops -> AsmPcs] /\ res' \in Threads /\ live' = None
      BY <1>12, <2>2 DEF AsmStage2, Goto, AsmPcs, Threads
    <3>3. liveFull' \in BOOLEAN
      BY <1>12, <2>2, Zenon DEF AsmStage2
    <3>. QED
      BY <1>12, <3>1, <3>2, <3>3 DEF AsmStage2
  <2>. QED
    BY <2>1, <2>2
<1>13. ASSUME NEW o \in Ops, AsmReuseNic(o) PROVE TypeOK'
  BY <1>13 DEF AsmReuseNic, Goto, AsmPcs
<1>14. ASSUME NEW o \in Ops, AsmCreateNic(o) PROVE TypeOK'
  BY <1>14 DEF AsmCreateNic, Goto, AsmPcs
<1>15. ASSUME NEW o \in Ops, AsmNoNic(o) PROVE TypeOK'
  BY <1>15 DEF AsmNoNic, Release, Goto, AsmPcs
<1>16. ASSUME NEW o \in Ops, AsmApplyOffer(o) PROVE TypeOK'
  BY <1>16 DEF AsmApplyOffer, Goto, AsmPcs
<1>17. ASSUME NEW o \in Ops, AsmApplyFailed(o) PROVE TypeOK'
  BY <1>17 DEF AsmApplyFailed, Release, Goto, AsmPcs
<1>18. ASSUME NEW o \in Ops, AsmPanic(o) PROVE TypeOK'
  BY <1>18 DEF AsmPanic, Goto, AsmPcs
<1>19. ASSUME NEW o \in Ops, AsmApplied(o) PROVE TypeOK'
  BY <1>19 DEF AsmApplied, UndoRoutes, Goto, AsmPcs, Publish, Event, Phases,
     Callers
<1>20. ASSUME NEW o \in Ops, AsmStartPlane(o) PROVE TypeOK'
  BY <1>20 DEF AsmStartPlane, Goto, AsmPcs
<1>21. ASSUME NEW o \in Ops, AsmStartPlaneFailed(o) PROVE TypeOK'
  BY <1>21 DEF AsmStartPlaneFailed, UndoRoutes, AsmPcs, Goto
<1>22. ASSUME NEW o \in Ops, AsmInstall(o) PROVE TypeOK'
  <2>1. CASE CanInstall(o)
    <3>1. latest' \in [op : Ops \cup Callers \cup {None}, phase : Phases]
      BY <1>22, <2>1 DEF AsmInstall, Publish, Event, Phases
    <3>2. asm' \in [Ops -> AsmPcs] /\ installed' \in SUBSET Ops
      BY <1>22, <2>1 DEF AsmInstall, Goto, AsmPcs
    <3>3. liveFull' \in BOOLEAN /\ paused' \in BOOLEAN
      BY <1>22, <2>1, Zenon DEF AsmInstall
    <3>. QED
      BY <1>22, <2>1, <3>1, <3>2, <3>3, Zenon DEF AsmInstall, Release
  <2>2. CASE ~CanInstall(o)
    BY <1>22, <2>2 DEF AsmInstall, Goto, AsmPcs
  <2>. QED
    BY <2>1, <2>2
<1>23. ASSUME NEW o \in Ops, AsmUndone(o) PROVE TypeOK'
  BY <1>23, Zenon DEF AsmUndone, RestoreOnError, Release, Goto, AsmPcs
<1>24. ASSUME NEW o \in Ops, AsmFailed(o) PROVE TypeOK'
  BY <1>24 DEF AsmFailed, Goto, AsmPcs, Publish, Event, Phases, Callers
<1>25. ASSUME NEW o \in Ops, AsmReset(o) PROVE TypeOK'
  <2>1. assembling' \in BOOLEAN
    BY <1>25, Zenon DEF AsmReset
  <2>. QED
    BY <1>25, <2>1 DEF AsmReset, Goto, AsmPcs
<1>26. ASSUME NEW o \in Ops, WorkerLost(o) PROVE TypeOK'
  BY <1>26 DEF WorkerLost
<1>27. ASSUME NEW o \in Ops, WorkerNotify(o) PROVE TypeOK'
  BY <1>27 DEF WorkerNotify
<1>28. ASSUME NEW o \in Ops, WorkerPublish(o) PROVE TypeOK'
  BY <1>28 DEF WorkerPublish, Publish, Event, Phases, Callers
<1>29. ASSUME NEW o \in Ops, WorkerExit(o) PROVE TypeOK'
  BY <1>29 DEF WorkerExit
<1>30. ASSUME NEW o \in Ops, SweepTake(o) PROVE TypeOK'
  BY <1>30, Zenon DEF SweepTake, TakeLive, Threads
<1>31. ASSUME NEW o \in Ops, SweepNothing(o) PROVE TypeOK'
  BY <1>31 DEF SweepNothing
<1>32. ASSUME NEW o \in Ops, SweepDone(o) PROVE TypeOK'
  BY <1>32, Zenon DEF SweepDone, RestoreOnError, Release
<1>33. ASSUME NEW o \in Ops, SweepExit(o) PROVE TypeOK'
  BY <1>33 DEF SweepExit
<1>34. ASSUME NEW c \in Callers, Cancel(c) PROVE TypeOK'
  BY <1>34 DEF Cancel, Overtaken, CallPcs
<1>35. ASSUME NEW c \in Callers, DisconnectBegin(c) PROVE TypeOK'
  BY <1>35 DEF DisconnectBegin, Overtaken, CallPcs
<1>36. ASSUME NEW c \in Callers, DisconnectTake(c) PROVE TypeOK'
  BY <1>36, Zenon DEF DisconnectTake, TakeLive, Overtaken, CallPcs, Threads
<1>37. ASSUME NEW c \in Callers, DisconnectPoisoned(c) PROVE TypeOK'
  BY <1>37 DEF DisconnectPoisoned, CallPcs
<1>38. ASSUME NEW c \in Callers, DisconnectFailed(c) PROVE TypeOK'
  BY <1>38, Zenon DEF DisconnectFailed, RestoreOnError, Release, CallPcs
<1>39. ASSUME NEW c \in Callers, DisconnectCleaned(c) PROVE TypeOK'
  BY <1>39 DEF DisconnectCleaned, RetryPending, Release, CallPcs
<1>40. ASSUME NEW c \in Callers, CloseNic(c) PROVE TypeOK'
  <2>1. nic' \in BOOLEAN
    BY <1>40, Zenon DEF CloseNic
  <2>. QED
    BY <1>40, <2>1 DEF CloseNic, CallPcs
<1>41. ASSUME NEW c \in Callers, PublishIdle(c) PROVE TypeOK'
  BY <1>41 DEF PublishIdle, CallPcs, Publish, Event, Phases, Callers
<1>42. CASE CleanStop
  BY <1>42, ZenonT(40) DEF CleanStop
<1>43. CASE CleanJoin
  <2>1. session' \in [Ops -> {"none", "open", "ended"}]
    BY <1>43, Zenon DEF CleanJoin
  <2>. QED
    BY <1>43, <2>1 DEF CleanJoin
<1>44. CASE CleanRoute
  BY <1>44 DEF CleanRoute
<1>45. CASE UNCHANGED vars
  BY <1>45 DEF vars
<1>. QED
  BY <1>1, <1>2, <1>3, <1>4, <1>5, <1>6, <1>7, <1>8, <1>9, <1>10, <1>11,
     <1>12, <1>13, <1>14, <1>15, <1>16, <1>17, <1>18, <1>19, <1>20, <1>21,
     <1>22, <1>23, <1>24, <1>25, <1>26, <1>27, <1>28, <1>29, <1>30, <1>31,
     <1>32, <1>33, <1>34, <1>35, <1>36, <1>37, <1>38, <1>39, <1>40, <1>41,
     <1>42, <1>43, <1>44, <1>45, ZenonT(40)
     DEF Next, ApplyStep, AsmStep, WorkerReport, SweepStep, CallStep,
        CleanStep,
         Quiescent

\* start_apply accepts only while `assembling' is false, and only the assembly
\* thread resets it.
LEMMA AssemblyStep ==
    ASSUME TypeOK, SingleAssembly, [Next]_vars
    PROVE  SingleAssembly'
<1>0. /\ assembling \in BOOLEAN /\ cancelFlag \in BOOLEAN /\ liveFull \in BOOLEAN
      /\ asm \in [Ops -> AsmPcs]
  BY DEF TypeOK
<1>1. ASSUME NEW o \in Ops,
             WorkerLost(o) \/ WorkerNotify(o) \/ WorkerPublish(o) \/
             WorkerExit(o)
      PROVE  UNCHANGED <<assembling, asm>>
  BY <1>1 DEF WorkerLost, WorkerNotify, WorkerPublish, WorkerExit, flagVars,
         asmVars
<1>2. ASSUME NEW o \in Ops,
             SweepTake(o) \/ SweepNothing(o) \/ SweepDone(o) \/ SweepExit(o)
      PROVE  UNCHANGED <<assembling, asm>>
  BY <1>2 DEF SweepTake, SweepNothing, SweepDone, SweepExit, flagVars, asmVars
<1>3. ASSUME NEW c \in Callers,
             Cancel(c) \/ DisconnectBegin(c) \/ DisconnectTake(c) \/
             DisconnectPoisoned(c) \/ DisconnectFailed(c) \/
             DisconnectCleaned(c) \/ CloseNic(c) \/ PublishIdle(c)
      PROVE  UNCHANGED <<assembling, asm>>
  BY <1>3, Zenon DEF Cancel, DisconnectBegin, DisconnectTake, DisconnectPoisoned,
         DisconnectFailed, DisconnectCleaned, CloseNic, PublishIdle, asmVars,
         flagVars
<1>4. ASSUME CleanStop \/ CleanJoin \/ CleanRoute
      PROVE  UNCHANGED <<assembling, asm>>
  BY <1>4 DEF CleanStop, CleanJoin, CleanRoute, flagVars, asmVars
<1>5. ASSUME UNCHANGED vars
      PROVE  UNCHANGED <<assembling, asm>>
  BY <1>5 DEF vars
<1> USE <1>0 DEF SingleAssembly, Running, flagVars
<1>6. ASSUME NEW o \in Ops, StartRefused(o) PROVE SingleAssembly'
  BY <1>6 DEF StartRefused
<1>7. ASSUME NEW o \in Ops, RefusalReported(o) PROVE SingleAssembly'
  BY <1>7 DEF RefusalReported
<1>8. ASSUME NEW o \in Ops, StartAdopted(o) PROVE SingleAssembly'
  BY <1>8 DEF StartAdopted, CanAdopt, IsConnected
<1>9. ASSUME NEW o \in Ops, StartAccepted(o) PROVE SingleAssembly'
  BY <1>9 DEF StartAccepted
<1>10. ASSUME NEW o \in Ops, AsmBegin(o) PROVE SingleAssembly'
  BY <1>10 DEF AsmBegin, Goto
<1>11. ASSUME NEW o \in Ops, AsmClear(o) PROVE SingleAssembly'
  BY <1>11 DEF AsmClear, TakeLive, Goto
<1>12. ASSUME NEW o \in Ops, AsmPoisoned(o) PROVE SingleAssembly'
  BY <1>12 DEF AsmPoisoned, Goto
<1>13. ASSUME NEW o \in Ops, AsmClearFailed(o) PROVE SingleAssembly'
  BY <1>13 DEF AsmClearFailed, RestoreOnError, Release, Goto
<1>14. ASSUME NEW o \in Ops, AsmCleared(o) PROVE SingleAssembly'
  BY <1>14 DEF AsmCleared, RetryPending, Release, Goto
<1>15. ASSUME NEW o \in Ops, AsmPreflight(o) PROVE SingleAssembly'
  BY <1>15 DEF AsmPreflight, Goto
<1>16. ASSUME NEW o \in Ops, AsmLogin(o) PROVE SingleAssembly'
  BY <1>16 DEF AsmLogin, Goto
<1>17. ASSUME NEW o \in Ops, AsmStage2(o) PROVE SingleAssembly'
  BY <1>17 DEF AsmStage2, Goto
<1>18. ASSUME NEW o \in Ops, AsmReuseNic(o) PROVE SingleAssembly'
  BY <1>18 DEF AsmReuseNic, Goto
<1>19. ASSUME NEW o \in Ops, AsmCreateNic(o) PROVE SingleAssembly'
  BY <1>19 DEF AsmCreateNic, Goto
<1>20. ASSUME NEW o \in Ops, AsmNoNic(o) PROVE SingleAssembly'
  BY <1>20 DEF AsmNoNic, Release, Goto
<1>21. ASSUME NEW o \in Ops, AsmApplyOffer(o) PROVE SingleAssembly'
  BY <1>21 DEF AsmApplyOffer, Goto
<1>22. ASSUME NEW o \in Ops, AsmApplyFailed(o) PROVE SingleAssembly'
  BY <1>22 DEF AsmApplyFailed, Release, Goto
<1>23. ASSUME NEW o \in Ops, AsmPanic(o) PROVE SingleAssembly'
  BY <1>23 DEF AsmPanic, Goto
<1>24. ASSUME NEW o \in Ops, AsmApplied(o) PROVE SingleAssembly'
  BY <1>24 DEF AsmApplied, UndoRoutes, Goto
<1>25. ASSUME NEW o \in Ops, AsmStartPlane(o) PROVE SingleAssembly'
  BY <1>25 DEF AsmStartPlane, Goto
<1>26. ASSUME NEW o \in Ops, AsmStartPlaneFailed(o) PROVE SingleAssembly'
  BY <1>26 DEF AsmStartPlaneFailed, UndoRoutes, Goto
<1>27. ASSUME NEW o \in Ops, AsmInstall(o) PROVE SingleAssembly'
  BY <1>27 DEF AsmInstall, CanInstall, Alive, Release, Goto
<1>28. ASSUME NEW o \in Ops, AsmUndone(o) PROVE SingleAssembly'
  BY <1>28 DEF AsmUndone, RestoreOnError, Release, Goto
<1>29. ASSUME NEW o \in Ops, AsmFailed(o) PROVE SingleAssembly'
  BY <1>29 DEF AsmFailed, Goto
<1>30. ASSUME NEW o \in Ops, AsmReset(o) PROVE SingleAssembly'
  BY <1>30 DEF AsmReset, Goto
<1>31. CASE UNCHANGED <<assembling, asm>>
  BY <1>31
<1>. QED
  BY <1>1, <1>2, <1>3, <1>4, <1>5, <1>6, <1>7, <1>8, <1>9, <1>10, <1>11,
     <1>12, <1>13, <1>14, <1>15, <1>16, <1>17, <1>18, <1>19, <1>20, <1>21,
     <1>22, <1>23, <1>24, <1>25, <1>26, <1>27, <1>28, <1>29, <1>30, <1>31, Zenon
     DEF Next, ApplyStep, AsmStep, WorkerReport, SweepStep, CallStep,
         CleanStep, Quiescent

\* Taking, cleaning up, restoring and installing a tunnel stay serialised.
LEMMA LockStep ==
    ASSUME TypeOK, SingleAssembly, LockDiscipline, [Next]_vars
    PROVE  LockDiscipline'
<1>0. /\ asm \in [Ops -> AsmPcs]
      /\ sweeper \in [Ops -> {"none", "idle", "signalled", "cleaning", "exited"}]
      /\ call \in [Callers -> CallPcs]
  BY SMTT(30) DEF TypeOK
<1>1. ASSUME NEW o \in Ops, WorkerLost(o) \/ WorkerPublish(o) \/ WorkerExit(o)
      PROVE  UNCHANGED <<asm, sweeper, call, res, cleaning, cleanStage, live>>
  BY <1>1 DEF WorkerLost, WorkerPublish, WorkerExit, hostVars, lockVars,
         asmVars
<1>2. ASSUME UNCHANGED vars
      PROVE  UNCHANGED <<asm, sweeper, call, res, cleaning, cleanStage, live>>
  BY <1>2, Zenon DEF vars
<1> USE <1>0, NoneAssumption, IdsAssumption DEF LockDiscipline,
        SingleAssembly, Running, BeforeInstall, InStage2, Threads, AsmThread,
        SweepThread, CallThread, asmVars, hostVars, lockVars
<1>3. ASSUME NEW o \in Ops, StartRefused(o) PROVE LockDiscipline'
  BY <1>3, Zenon DEF StartRefused
<1>4. ASSUME NEW o \in Ops, RefusalReported(o) PROVE LockDiscipline'
  BY <1>4, Zenon DEF RefusalReported
<1>5. ASSUME NEW o \in Ops, StartAdopted(o) PROVE LockDiscipline'
  BY <1>5, Zenon DEF StartAdopted, CanAdopt, IsConnected
<1>6. ASSUME NEW o \in Ops, StartAccepted(o) PROVE LockDiscipline'
  BY <1>6, Zenon DEF StartAccepted
<1>7. ASSUME NEW o \in Ops, AsmBegin(o) PROVE LockDiscipline'
  BY <1>7, Zenon DEF AsmBegin, Goto
<1>8. ASSUME NEW o \in Ops, AsmClear(o) PROVE LockDiscipline'
  BY <1>8 DEF AsmClear, TakeLive, Goto
<1>9. ASSUME NEW o \in Ops, AsmPoisoned(o) PROVE LockDiscipline'
  BY <1>9 DEF AsmPoisoned, Goto
<1>10. ASSUME NEW o \in Ops, AsmClearFailed(o) PROVE LockDiscipline'
  BY <1>10 DEF AsmClearFailed, RestoreOnError, Release, Goto
<1>11. ASSUME NEW o \in Ops, AsmCleared(o) PROVE LockDiscipline'
  BY <1>11 DEF AsmCleared, RetryPending, Release, Goto
<1>12. ASSUME NEW o \in Ops, AsmPreflight(o) PROVE LockDiscipline'
  BY <1>12 DEF AsmPreflight, Goto
<1>13. ASSUME NEW o \in Ops, AsmLogin(o) PROVE LockDiscipline'
  BY <1>13 DEF AsmLogin, Goto
<1>14. ASSUME NEW o \in Ops, AsmStage2(o) PROVE LockDiscipline'
  BY <1>14 DEF AsmStage2, Goto
<1>15. ASSUME NEW o \in Ops, AsmReuseNic(o) PROVE LockDiscipline'
  BY <1>15, Zenon DEF AsmReuseNic, Goto
<1>16. ASSUME NEW o \in Ops, AsmCreateNic(o) PROVE LockDiscipline'
  BY <1>16, Zenon DEF AsmCreateNic, Goto
<1>17. ASSUME NEW o \in Ops, AsmNoNic(o) PROVE LockDiscipline'
  BY <1>17 DEF AsmNoNic, Release, Goto
<1>18. ASSUME NEW o \in Ops, AsmApplyOffer(o) PROVE LockDiscipline'
  BY <1>18, Zenon DEF AsmApplyOffer, Goto
<1>19. ASSUME NEW o \in Ops, AsmApplyFailed(o) PROVE LockDiscipline'
  BY <1>19 DEF AsmApplyFailed, Release, Goto
<1>20. ASSUME NEW o \in Ops, AsmPanic(o) PROVE LockDiscipline'
  BY <1>20 DEF AsmPanic, Goto
<1>21. ASSUME NEW o \in Ops, AsmApplied(o) PROVE LockDiscipline'
  BY <1>21 DEF AsmApplied, UndoRoutes, Goto
<1>22. ASSUME NEW o \in Ops, AsmStartPlane(o) PROVE LockDiscipline'
  BY <1>22, Zenon DEF AsmStartPlane, Goto
<1>23. ASSUME NEW o \in Ops, AsmStartPlaneFailed(o) PROVE LockDiscipline'
  BY <1>23, SMTT(30) DEF AsmStartPlaneFailed, UndoRoutes, Goto
<1>24. ASSUME NEW o \in Ops, AsmInstall(o) PROVE LockDiscipline'
  BY <1>24 DEF AsmInstall, CanInstall, Alive, Release, Goto
<1>25. ASSUME NEW o \in Ops, AsmUndone(o) PROVE LockDiscipline'
  BY <1>25 DEF AsmUndone, RestoreOnError, Release, Goto
<1>26. ASSUME NEW o \in Ops, AsmFailed(o) PROVE LockDiscipline'
  BY <1>26, Zenon DEF AsmFailed, Goto
<1>27. ASSUME NEW o \in Ops, AsmReset(o) PROVE LockDiscipline'
  BY <1>27, Zenon DEF AsmReset, Goto
<1>28. ASSUME NEW o \in Ops, WorkerNotify(o) PROVE LockDiscipline'
  BY <1>28, Zenon DEF WorkerNotify
<1>29. ASSUME NEW o \in Ops, SweepTake(o) PROVE LockDiscipline'
  BY <1>29, Zenon DEF SweepTake, TakeLive
<1>30. ASSUME NEW o \in Ops, SweepNothing(o) PROVE LockDiscipline'
  BY <1>30, Zenon DEF SweepNothing
<1>31. ASSUME NEW o \in Ops, SweepDone(o) PROVE LockDiscipline'
  BY <1>31 DEF SweepDone, RestoreOnError, Release
<1>32. ASSUME NEW o \in Ops, SweepExit(o) PROVE LockDiscipline'
  BY <1>32 DEF SweepExit
<1>33. ASSUME NEW c \in Callers, Cancel(c) PROVE LockDiscipline'
  BY <1>33, Zenon DEF Cancel, Overtaken
<1>34. ASSUME NEW c \in Callers, DisconnectBegin(c) PROVE LockDiscipline'
  BY <1>34, Zenon DEF DisconnectBegin, Overtaken
<1>35. ASSUME NEW c \in Callers, DisconnectTake(c) PROVE LockDiscipline'
  BY <1>35, Zenon DEF DisconnectTake, TakeLive, Overtaken
<1>36. ASSUME NEW c \in Callers, DisconnectPoisoned(c) PROVE LockDiscipline'
  BY <1>36, Zenon DEF DisconnectPoisoned
<1>37. ASSUME NEW c \in Callers, DisconnectFailed(c) PROVE LockDiscipline'
  BY <1>37 DEF DisconnectFailed, RestoreOnError, Release
<1>38. ASSUME NEW c \in Callers, DisconnectCleaned(c) PROVE LockDiscipline'
  BY <1>38, SMTT(30) DEF DisconnectCleaned, RetryPending, Release
<1>39. ASSUME NEW c \in Callers, CloseNic(c) PROVE LockDiscipline'
  BY <1>39, Zenon DEF CloseNic
<1>40. ASSUME NEW c \in Callers, PublishIdle(c) PROVE LockDiscipline'
  BY <1>40 DEF PublishIdle
<1>41. CASE CleanStop
  BY <1>41 DEF CleanStop
<1>42. CASE CleanJoin
  BY <1>42, Zenon DEF CleanJoin
<1>43. CASE CleanRoute
  BY <1>43 DEF CleanRoute
<1>44. CASE UNCHANGED <<asm, sweeper, call, res, cleaning, cleanStage, live>>
  BY <1>44
<1>. QED
  BY <1>1, <1>2, <1>3, <1>4, <1>5, <1>6, <1>7, <1>8, <1>9, <1>10, <1>11,
     <1>12, <1>13, <1>14, <1>15, <1>16, <1>17, <1>18, <1>19, <1>20, <1>21,
     <1>22, <1>23, <1>24, <1>25, <1>26, <1>27, <1>28, <1>29, <1>30, <1>31,
     <1>32, <1>33, <1>34, <1>35, <1>36, <1>37, <1>38, <1>39, <1>40, <1>41,
     <1>42, <1>43, <1>44, ZenonT(40)
     DEF Next, ApplyStep, AsmStep, WorkerReport, SweepStep, CallStep,
         CleanStep, Quiescent

\* The token outlives every assembly it was set against.
LEMMA TokenStep ==
    ASSUME TypeOK, SingleAssembly, TokenHeld, RevokedNeverInstalled,
           StoppedStaysDown, [Next]_vars
    PROVE  (TokenHeld /\ RevokedNeverInstalled /\ StoppedStaysDown)'
<1>0. /\ assembling \in BOOLEAN /\ cancelFlag \in BOOLEAN /\ liveFull \in BOOLEAN
      /\ asm \in [Ops -> AsmPcs]
      /\ revoked \subseteq Ops /\ stopped \subseteq Ops
  BY DEF TypeOK
<1>1. ASSUME NEW o \in Ops,
             WorkerLost(o) \/ WorkerNotify(o) \/ WorkerPublish(o) \/
             WorkerExit(o)
      PROVE  UNCHANGED <<revoked, stopped, installed, asm, cancelFlag, live, liveFull>>
  BY <1>1, ZenonT(40) DEF WorkerLost, WorkerNotify, WorkerPublish, WorkerExit,
         flagVars,
         hostVars, asmVars, histVars
<1>2. ASSUME NEW o \in Ops, SweepNothing(o) \/ SweepExit(o)
      PROVE  UNCHANGED <<revoked, stopped, installed, asm, cancelFlag, live, liveFull>>
  BY <1>2, Zenon DEF SweepNothing, SweepExit, flagVars, hostVars, asmVars,
         histVars
<1>3. ASSUME NEW c \in Callers,
             DisconnectPoisoned(c) \/ DisconnectCleaned(c) \/ CloseNic(c) \/
             PublishIdle(c)
      PROVE  UNCHANGED <<revoked, stopped, installed, asm, cancelFlag, live, liveFull>>
  BY <1>3 DEF DisconnectPoisoned, DisconnectCleaned, CloseNic, PublishIdle,
         flagVars, hostVars, asmVars, histVars
<1>4. ASSUME CleanStop \/ CleanJoin \/ CleanRoute
      PROVE  UNCHANGED <<revoked, stopped, installed, asm, cancelFlag, live, liveFull>>
  BY <1>4, Zenon DEF CleanStop, CleanJoin, CleanRoute, flagVars, hostVars,
         asmVars,
         histVars
<1>5. ASSUME UNCHANGED vars
      PROVE  UNCHANGED <<revoked, stopped, installed, asm, cancelFlag, live, liveFull>>
  BY <1>5 DEF vars
<1> USE <1>0 DEF TokenHeld, RevokedNeverInstalled, StoppedStaysDown,
        SingleAssembly, Running, asmVars, flagVars, histVars, hostVars
<1>6. ASSUME NEW o \in Ops, StartRefused(o)
      PROVE  (TokenHeld /\ RevokedNeverInstalled /\ StoppedStaysDown)'
  BY <1>6 DEF StartRefused
<1>7. ASSUME NEW o \in Ops, RefusalReported(o)
      PROVE  (TokenHeld /\ RevokedNeverInstalled /\ StoppedStaysDown)'
  BY <1>7, Zenon DEF RefusalReported
<1>8. ASSUME NEW o \in Ops, StartAdopted(o)
      PROVE  (TokenHeld /\ RevokedNeverInstalled /\ StoppedStaysDown)'
  BY <1>8 DEF StartAdopted, CanAdopt, IsConnected
<1>9. ASSUME NEW o \in Ops, StartAccepted(o)
      PROVE  (TokenHeld /\ RevokedNeverInstalled /\ StoppedStaysDown)'
  BY <1>9 DEF StartAccepted
<1>10. ASSUME NEW o \in Ops, AsmBegin(o)
      PROVE  (TokenHeld /\ RevokedNeverInstalled /\ StoppedStaysDown)'
  BY <1>10, Zenon DEF AsmBegin, Goto
<1>11. ASSUME NEW o \in Ops, AsmClear(o)
      PROVE  (TokenHeld /\ RevokedNeverInstalled /\ StoppedStaysDown)'
  BY <1>11 DEF AsmClear, TakeLive, Goto
<1>12. ASSUME NEW o \in Ops, AsmPoisoned(o)
      PROVE  (TokenHeld /\ RevokedNeverInstalled /\ StoppedStaysDown)'
  BY <1>12 DEF AsmPoisoned, Goto
<1>13. ASSUME NEW o \in Ops, AsmClearFailed(o)
      PROVE  (TokenHeld /\ RevokedNeverInstalled /\ StoppedStaysDown)'
  BY <1>13, Zenon DEF AsmClearFailed, RestoreOnError, Release, Goto
<1>14. ASSUME NEW o \in Ops, AsmCleared(o)
      PROVE  (TokenHeld /\ RevokedNeverInstalled /\ StoppedStaysDown)'
  BY <1>14, Zenon DEF AsmCleared, RetryPending, Release, Goto
<1>15. ASSUME NEW o \in Ops, AsmPreflight(o)
      PROVE  (TokenHeld /\ RevokedNeverInstalled /\ StoppedStaysDown)'
  BY <1>15 DEF AsmPreflight, Goto
<1>16. ASSUME NEW o \in Ops, AsmLogin(o)
      PROVE  (TokenHeld /\ RevokedNeverInstalled /\ StoppedStaysDown)'
  BY <1>16 DEF AsmLogin, Goto
<1>17. ASSUME NEW o \in Ops, AsmStage2(o)
      PROVE  (TokenHeld /\ RevokedNeverInstalled /\ StoppedStaysDown)'
  BY <1>17 DEF AsmStage2, Goto
<1>18. ASSUME NEW o \in Ops, AsmReuseNic(o)
      PROVE  (TokenHeld /\ RevokedNeverInstalled /\ StoppedStaysDown)'
  BY <1>18, Zenon DEF AsmReuseNic, Goto
<1>19. ASSUME NEW o \in Ops, AsmCreateNic(o)
      PROVE  (TokenHeld /\ RevokedNeverInstalled /\ StoppedStaysDown)'
  BY <1>19 DEF AsmCreateNic, Goto
<1>20. ASSUME NEW o \in Ops, AsmNoNic(o)
      PROVE  (TokenHeld /\ RevokedNeverInstalled /\ StoppedStaysDown)'
  BY <1>20 DEF AsmNoNic, Release, Goto
<1>21. ASSUME NEW o \in Ops, AsmApplyOffer(o)
      PROVE  (TokenHeld /\ RevokedNeverInstalled /\ StoppedStaysDown)'
  BY <1>21, Zenon DEF AsmApplyOffer, Goto
<1>22. ASSUME NEW o \in Ops, AsmApplyFailed(o)
      PROVE  (TokenHeld /\ RevokedNeverInstalled /\ StoppedStaysDown)'
  BY <1>22, Zenon DEF AsmApplyFailed, Release, Goto
<1>23. ASSUME NEW o \in Ops, AsmPanic(o)
      PROVE  (TokenHeld /\ RevokedNeverInstalled /\ StoppedStaysDown)'
  BY <1>23 DEF AsmPanic, Goto
<1>24. ASSUME NEW o \in Ops, AsmApplied(o)
      PROVE  (TokenHeld /\ RevokedNeverInstalled /\ StoppedStaysDown)'
  BY <1>24 DEF AsmApplied, UndoRoutes, Goto
<1>25. ASSUME NEW o \in Ops, AsmStartPlane(o)
      PROVE  (TokenHeld /\ RevokedNeverInstalled /\ StoppedStaysDown)'
  BY <1>25, Zenon DEF AsmStartPlane, Goto
<1>26. ASSUME NEW o \in Ops, AsmStartPlaneFailed(o)
      PROVE  (TokenHeld /\ RevokedNeverInstalled /\ StoppedStaysDown)'
  BY <1>26, Zenon DEF AsmStartPlaneFailed, UndoRoutes, Goto
<1>27. ASSUME NEW o \in Ops, AsmInstall(o)
      PROVE  (TokenHeld /\ RevokedNeverInstalled /\ StoppedStaysDown)'
  BY <1>27 DEF AsmInstall, CanInstall, Alive, Release, Goto
<1>28. ASSUME NEW o \in Ops, AsmUndone(o)
      PROVE  (TokenHeld /\ RevokedNeverInstalled /\ StoppedStaysDown)'
  BY <1>28 DEF AsmUndone, RestoreOnError, Release, Goto
<1>29. ASSUME NEW o \in Ops, AsmFailed(o)
      PROVE  (TokenHeld /\ RevokedNeverInstalled /\ StoppedStaysDown)'
  BY <1>29 DEF AsmFailed, Goto
<1>30. ASSUME NEW o \in Ops, AsmReset(o)
      PROVE  (TokenHeld /\ RevokedNeverInstalled /\ StoppedStaysDown)'
  BY <1>30 DEF AsmReset, Goto
<1>31. ASSUME NEW o \in Ops, SweepTake(o)
      PROVE  (TokenHeld /\ RevokedNeverInstalled /\ StoppedStaysDown)'
  BY <1>31 DEF SweepTake, TakeLive
<1>32. ASSUME NEW o \in Ops, SweepDone(o)
      PROVE  (TokenHeld /\ RevokedNeverInstalled /\ StoppedStaysDown)'
  BY <1>32, Zenon DEF SweepDone, RestoreOnError, Release
<1>33. ASSUME NEW c \in Callers, Cancel(c)
      PROVE  (TokenHeld /\ RevokedNeverInstalled /\ StoppedStaysDown)'
  BY <1>33 DEF Cancel, Overtaken
<1>34. ASSUME NEW c \in Callers, DisconnectBegin(c)
      PROVE  (TokenHeld /\ RevokedNeverInstalled /\ StoppedStaysDown)'
  BY <1>34 DEF DisconnectBegin, Overtaken
<1>35. ASSUME NEW c \in Callers, DisconnectTake(c)
      PROVE  (TokenHeld /\ RevokedNeverInstalled /\ StoppedStaysDown)'
  BY <1>35 DEF DisconnectTake, TakeLive, Overtaken
<1>36. ASSUME NEW c \in Callers, DisconnectFailed(c)
      PROVE  (TokenHeld /\ RevokedNeverInstalled /\ StoppedStaysDown)'
  BY <1>36 DEF DisconnectFailed, RestoreOnError, Release
<1>37. CASE UNCHANGED <<revoked, stopped, installed, asm, cancelFlag, live,
           liveFull>>
  BY <1>37, SMTT(30)
<1>. QED
  BY <1>1, <1>2, <1>3, <1>4, <1>5, <1>6, <1>7, <1>8, <1>9, <1>10, <1>11,
     <1>12, <1>13, <1>14, <1>15, <1>16, <1>17, <1>18, <1>19, <1>20, <1>21,
     <1>22, <1>23, <1>24, <1>25, <1>26, <1>27, <1>28, <1>29, <1>30, <1>31,
     <1>32, <1>33, <1>34, <1>35, <1>36, <1>37, ZenonT(40)
     DEF Next, ApplyStep, AsmStep, WorkerReport, SweepStep, CallStep,
         CleanStep, Quiescent

-----------------------------------------------------------------------------
(***************************************************************************)
(* Every step of TunnelRuntime keeps what is said of the data plane: of    *)
(* paused, of its threads and session, of generations and sweepers, and of *)
(* the operation a loss is reported for.                                   *)
(***************************************************************************)

\* stop_and_join returns before the session is dropped.
LEMMA JoinedStep ==
    ASSUME TypeOK, JoinedBeforeSessionEnd, [Next]_vars
    PROVE  JoinedBeforeSessionEnd'
<1>0. /\ session \in [Ops -> {"none", "open", "ended"}]
      /\ worker \in [Ops -> {"none", "waiting", "running", "lost", "notified",
                             "published", "exited"}]
  BY DEF TypeOK
<1>1. ASSUME NEW o \in Ops,
             StartRefused(o) \/ RefusalReported(o) \/ StartAdopted(o) \/
             StartAccepted(o)
      PROVE  UNCHANGED <<session, worker>>
  BY <1>1, SMTT(30) DEF StartRefused, RefusalReported, StartAdopted, StartAccepted,
         planeVars
<1>2. ASSUME NEW o \in Ops,
             AsmBegin(o) \/ AsmClear(o) \/ AsmPoisoned(o) \/ AsmClearFailed(o)
             \/ AsmCleared(o) \/ AsmPreflight(o) \/ AsmLogin(o) \/
             AsmStage2(o) \/ AsmReuseNic(o) \/ AsmCreateNic(o) \/ AsmNoNic(o)
             \/ AsmApplyOffer(o) \/ AsmApplyFailed(o) \/ AsmPanic(o) \/
             AsmApplied(o) \/ AsmStartPlaneFailed(o) \/ AsmUndone(o) \/
             AsmFailed(o) \/ AsmReset(o)
      PROVE  UNCHANGED <<session, worker>>
  BY <1>2, ZenonT(40) DEF AsmBegin, AsmClear, AsmPoisoned, AsmClearFailed, AsmCleared,
         AsmPreflight, AsmLogin, AsmStage2, AsmReuseNic, AsmCreateNic,
         AsmNoNic, AsmApplyOffer, AsmApplyFailed, AsmPanic, AsmApplied,
         AsmStartPlaneFailed, AsmUndone, AsmFailed, AsmReset, planeVars
<1>3. ASSUME NEW o \in Ops,
             SweepTake(o) \/ SweepNothing(o) \/ SweepDone(o) \/ SweepExit(o)
      PROVE  UNCHANGED <<session, worker>>
  BY <1>3, ZenonT(40) DEF SweepTake, SweepNothing, SweepDone, SweepExit, planeVars
<1>4. ASSUME NEW c \in Callers,
             Cancel(c) \/ DisconnectBegin(c) \/ DisconnectTake(c) \/
             DisconnectPoisoned(c) \/ DisconnectFailed(c) \/
             DisconnectCleaned(c) \/ CloseNic(c) \/ PublishIdle(c)
      PROVE  UNCHANGED <<session, worker>>
  BY <1>4 DEF Cancel, DisconnectBegin, DisconnectTake, DisconnectPoisoned,
         DisconnectFailed, DisconnectCleaned, CloseNic, PublishIdle, planeVars
<1>5. ASSUME CleanStop \/ CleanRoute
      PROVE  UNCHANGED <<session, worker>>
  BY <1>5 DEF CleanStop, CleanRoute, planeVars
<1>6. ASSUME UNCHANGED vars
      PROVE  UNCHANGED <<session, worker>>
  BY <1>6 DEF vars
<1> USE <1>0 DEF JoinedBeforeSessionEnd
<1>7. ASSUME NEW o \in Ops, AsmStartPlane(o) PROVE JoinedBeforeSessionEnd'
  BY <1>7 DEF AsmStartPlane, Goto
<1>8. ASSUME NEW o \in Ops, AsmInstall(o) PROVE JoinedBeforeSessionEnd'
  BY <1>8 DEF AsmInstall, CanInstall, Alive, Release, Goto
<1>9. ASSUME NEW o \in Ops, WorkerLost(o) PROVE JoinedBeforeSessionEnd'
  BY <1>9 DEF WorkerLost
<1>10. ASSUME NEW o \in Ops, WorkerNotify(o) PROVE JoinedBeforeSessionEnd'
  BY <1>10 DEF WorkerNotify
<1>11. ASSUME NEW o \in Ops, WorkerPublish(o) PROVE JoinedBeforeSessionEnd'
  BY <1>11 DEF WorkerPublish
<1>12. ASSUME NEW o \in Ops, WorkerExit(o) PROVE JoinedBeforeSessionEnd'
  BY <1>12 DEF WorkerExit
<1>13. CASE CleanJoin
  BY <1>13 DEF CleanJoin
<1>14. CASE UNCHANGED <<session, worker>>
  BY <1>14
<1>. QED
  BY <1>1, <1>2, <1>3, <1>4, <1>5, <1>6, <1>7, <1>8, <1>9, <1>10, <1>11,
     <1>12, <1>13, <1>14, Zenon
     DEF Next, ApplyStep, AsmStep, WorkerReport, SweepStep, CallStep,
         CleanStep, Quiescent

-----------------------------------------------------------------------------
(* Routes, generations and reports *)

\* An operation's routes are owned in one role at a time.
LEMMA RolesStep ==
    ASSUME TypeOK, SingleAssembly, LockDiscipline, RouteRoles, [Next]_vars
    PROVE  RouteRoles'
<1>0. /\ asm \in [Ops -> AsmPcs]
      /\ live \in Ops \cup {None}
      /\ cleaning \in Ops \cup {None}
      /\ pending \subseteq Ops /\ routes \subseteq Ops
  BY DEF TypeOK
<1>1. ASSUME NEW o \in Ops,
             WorkerLost(o) \/ WorkerNotify(o) \/ WorkerPublish(o) \/
             WorkerExit(o)
      PROVE  UNCHANGED <<asm, live, cleaning, cleanStage, pending, routes>>
  BY <1>1 DEF WorkerLost, WorkerNotify, WorkerPublish, WorkerExit, hostVars,
         lockVars, asmVars
<1>2. ASSUME NEW o \in Ops, SweepNothing(o) \/ SweepExit(o)
      PROVE  UNCHANGED <<asm, live, cleaning, cleanStage, pending, routes>>
  BY <1>2, Zenon DEF SweepNothing, SweepExit, hostVars, lockVars, asmVars
<1>3. ASSUME NEW c \in Callers,
             Cancel(c) \/ DisconnectBegin(c) \/ DisconnectPoisoned(c) \/
             CloseNic(c) \/ PublishIdle(c)
      PROVE  UNCHANGED <<asm, live, cleaning, cleanStage, pending, routes>>
  BY <1>3 DEF Cancel, DisconnectBegin, DisconnectPoisoned, CloseNic,
         PublishIdle, hostVars, lockVars, asmVars
<1>4. ASSUME UNCHANGED vars
      PROVE  UNCHANGED <<asm, live, cleaning, cleanStage, pending, routes>>
  BY <1>4, Zenon DEF vars
<1> USE <1>0, IdsAssumption, NoneAssumption DEF RouteRoles, SingleAssembly,
        Running, LockDiscipline, BeforeInstall, InStage2, Threads, asmVars,
        hostVars, lockVars
<1>5. ASSUME NEW o \in Ops, StartRefused(o) PROVE RouteRoles'
  BY <1>5, Zenon DEF StartRefused
<1>6. ASSUME NEW o \in Ops, RefusalReported(o) PROVE RouteRoles'
  BY <1>6, Zenon DEF RefusalReported
<1>7. ASSUME NEW o \in Ops, StartAdopted(o) PROVE RouteRoles'
  BY <1>7, Zenon DEF StartAdopted, CanAdopt, IsConnected
<1>8. ASSUME NEW o \in Ops, StartAccepted(o) PROVE RouteRoles'
  BY <1>8, Zenon DEF StartAccepted
<1>9. ASSUME NEW o \in Ops, AsmBegin(o) PROVE RouteRoles'
  BY <1>9, Zenon DEF AsmBegin, Goto
<1>10. ASSUME NEW o \in Ops, AsmClear(o) PROVE RouteRoles'
  BY <1>10, Zenon DEF AsmClear, TakeLive, Goto
<1>11. ASSUME NEW o \in Ops, AsmPoisoned(o) PROVE RouteRoles'
  BY <1>11, Zenon DEF AsmPoisoned, Goto
<1>12. ASSUME NEW o \in Ops, AsmClearFailed(o) PROVE RouteRoles'
  BY <1>12, Zenon DEF AsmClearFailed, RestoreOnError, Release, Goto
<1>13. ASSUME NEW o \in Ops, AsmCleared(o) PROVE RouteRoles'
  BY <1>13, Zenon DEF AsmCleared, RetryPending, Release, Goto
<1>14. ASSUME NEW o \in Ops, AsmPreflight(o) PROVE RouteRoles'
  BY <1>14, Zenon DEF AsmPreflight, Goto
<1>15. ASSUME NEW o \in Ops, AsmLogin(o) PROVE RouteRoles'
  BY <1>15, Zenon DEF AsmLogin, Goto
<1>16. ASSUME NEW o \in Ops, AsmStage2(o) PROVE RouteRoles'
  BY <1>16, Zenon DEF AsmStage2, Goto
<1>17. ASSUME NEW o \in Ops, AsmReuseNic(o) PROVE RouteRoles'
  BY <1>17, Zenon DEF AsmReuseNic, Goto
<1>18. ASSUME NEW o \in Ops, AsmCreateNic(o) PROVE RouteRoles'
  BY <1>18, Zenon DEF AsmCreateNic, Goto
<1>19. ASSUME NEW o \in Ops, AsmNoNic(o) PROVE RouteRoles'
  BY <1>19, Zenon DEF AsmNoNic, Release, Goto
<1>20. ASSUME NEW o \in Ops, AsmApplyOffer(o) PROVE RouteRoles'
  BY <1>20, Zenon DEF AsmApplyOffer, Goto
<1>21. ASSUME NEW o \in Ops, AsmApplyFailed(o) PROVE RouteRoles'
  BY <1>21 DEF AsmApplyFailed, Release, Goto
<1>22. ASSUME NEW o \in Ops, AsmPanic(o) PROVE RouteRoles'
  BY <1>22, Zenon DEF AsmPanic, Goto
<1>23. ASSUME NEW o \in Ops, AsmApplied(o) PROVE RouteRoles'
  BY <1>23, Zenon DEF AsmApplied, UndoRoutes, Goto
<1>24. ASSUME NEW o \in Ops, AsmStartPlane(o) PROVE RouteRoles'
  BY <1>24, Zenon DEF AsmStartPlane, Goto
<1>25. ASSUME NEW o \in Ops, AsmStartPlaneFailed(o) PROVE RouteRoles'
  BY <1>25, Zenon DEF AsmStartPlaneFailed, UndoRoutes, Goto
<1>26. ASSUME NEW o \in Ops, AsmInstall(o) PROVE RouteRoles'
  BY <1>26, Zenon DEF AsmInstall, CanInstall, Alive, Release, Goto
<1>27. ASSUME NEW o \in Ops, AsmUndone(o) PROVE RouteRoles'
  BY <1>27, Zenon DEF AsmUndone, RestoreOnError, Release, Goto
<1>28. ASSUME NEW o \in Ops, AsmFailed(o) PROVE RouteRoles'
  BY <1>28, Zenon DEF AsmFailed, Goto
<1>29. ASSUME NEW o \in Ops, AsmReset(o) PROVE RouteRoles'
  BY <1>29, Zenon DEF AsmReset, Goto
<1>30. ASSUME NEW o \in Ops, SweepTake(o) PROVE RouteRoles'
  BY <1>30, Zenon DEF SweepTake, TakeLive
<1>31. ASSUME NEW o \in Ops, SweepDone(o) PROVE RouteRoles'
  BY <1>31, Zenon DEF SweepDone, RestoreOnError, Release
<1>32. ASSUME NEW c \in Callers, DisconnectTake(c) PROVE RouteRoles'
  BY <1>32, Zenon DEF DisconnectTake, TakeLive, Overtaken
<1>33. ASSUME NEW c \in Callers, DisconnectFailed(c) PROVE RouteRoles'
  BY <1>33, Zenon DEF DisconnectFailed, RestoreOnError, Release
<1>34. ASSUME NEW c \in Callers, DisconnectCleaned(c) PROVE RouteRoles'
  BY <1>34, Zenon DEF DisconnectCleaned, RetryPending, Release
<1>35. CASE CleanStop
  BY <1>35, Zenon DEF CleanStop
<1>36. CASE CleanJoin
  BY <1>36, Zenon DEF CleanJoin
<1>37. CASE CleanRoute
  BY <1>37 DEF CleanRoute
<1>38. CASE UNCHANGED <<asm, live, cleaning, cleanStage, pending, routes>>
  BY <1>38
<1>. QED
  BY <1>1, <1>2, <1>3, <1>4, <1>5, <1>6, <1>7, <1>8, <1>9, <1>10, <1>11,
     <1>12, <1>13, <1>14, <1>15, <1>16, <1>17, <1>18, <1>19, <1>20, <1>21,
     <1>22, <1>23, <1>24, <1>25, <1>26, <1>27, <1>28, <1>29, <1>30, <1>31,
     <1>32, <1>33, <1>34, <1>35, <1>36, <1>37, <1>38, ZenonT(40)
     DEF Next, ApplyStep, AsmStep, WorkerReport, SweepStep, CallStep,
         CleanStep, Quiescent

\* Some owner will remove each route of the system's tables.
OwnerExists ==
    ~poisoned =>
        \A o \in routes :
            \/ live = o
            \/ o \in pending
            \/ cleaning = o /\ cleanStage # "ok"
            \/ asm[o] \in {"applied", "startPlane", "install"}

\* Each action hands the routes on or removes them.
LEMMA OwnerStep ==
    ASSUME TypeOK, LockDiscipline, RouteRoles, OwnerExists, [Next]_vars
    PROVE  OwnerExists'
<1>0. /\ asm \in [Ops -> AsmPcs]
      /\ live \in Ops \cup {None}
      /\ cleaning \in Ops \cup {None}
      /\ pending \subseteq Ops /\ routes \subseteq Ops
  BY DEF TypeOK
<1>1. ASSUME NEW o \in Ops,
             WorkerLost(o) \/ WorkerNotify(o) \/ WorkerPublish(o) \/
             WorkerExit(o)
      PROVE  UNCHANGED <<asm, live, cleaning, cleanStage, pending, routes, poisoned>>
  BY <1>1, Zenon DEF WorkerLost, WorkerNotify, WorkerPublish, WorkerExit,
         hostVars,
         lockVars, asmVars
<1>2. ASSUME NEW o \in Ops, SweepNothing(o) \/ SweepExit(o)
      PROVE  UNCHANGED <<asm, live, cleaning, cleanStage, pending, routes, poisoned>>
  BY <1>2, Zenon DEF SweepNothing, SweepExit, hostVars, lockVars, asmVars
<1>3. ASSUME NEW c \in Callers,
             Cancel(c) \/ DisconnectBegin(c) \/ DisconnectPoisoned(c) \/
             CloseNic(c) \/ PublishIdle(c)
      PROVE  UNCHANGED <<asm, live, cleaning, cleanStage, pending, routes, poisoned>>
  BY <1>3 DEF Cancel, DisconnectBegin, DisconnectPoisoned, CloseNic,
         PublishIdle, hostVars, lockVars, asmVars
<1>4. ASSUME UNCHANGED vars
      PROVE  UNCHANGED <<asm, live, cleaning, cleanStage, pending, routes, poisoned>>
  BY <1>4, Zenon DEF vars
<1> USE <1>0, IdsAssumption DEF OwnerExists, LockDiscipline, RouteRoles,
        BeforeInstall, InStage2, asmVars, hostVars, lockVars
<1>5. ASSUME NEW o \in Ops, StartRefused(o) PROVE OwnerExists'
  BY <1>5, Zenon DEF StartRefused
<1>6. ASSUME NEW o \in Ops, RefusalReported(o) PROVE OwnerExists'
  BY <1>6, Zenon DEF RefusalReported
<1>7. ASSUME NEW o \in Ops, StartAdopted(o) PROVE OwnerExists'
  BY <1>7, Zenon DEF StartAdopted, CanAdopt, IsConnected
<1>8. ASSUME NEW o \in Ops, StartAccepted(o) PROVE OwnerExists'
  BY <1>8, Zenon DEF StartAccepted
<1>9. ASSUME NEW o \in Ops, AsmBegin(o) PROVE OwnerExists'
  BY <1>9, Zenon DEF AsmBegin, Goto
<1>10. ASSUME NEW o \in Ops, AsmClear(o) PROVE OwnerExists'
  BY <1>10, Zenon DEF AsmClear, TakeLive, Goto
<1>11. ASSUME NEW o \in Ops, AsmPoisoned(o) PROVE OwnerExists'
  BY <1>11, Zenon DEF AsmPoisoned, Goto
<1>12. ASSUME NEW o \in Ops, AsmClearFailed(o) PROVE OwnerExists'
  BY <1>12, Zenon DEF AsmClearFailed, RestoreOnError, Release, Goto
<1>13. ASSUME NEW o \in Ops, AsmCleared(o) PROVE OwnerExists'
  BY <1>13, Zenon DEF AsmCleared, RetryPending, Release, Goto
<1>14. ASSUME NEW o \in Ops, AsmPreflight(o) PROVE OwnerExists'
  BY <1>14, Zenon DEF AsmPreflight, Goto
<1>15. ASSUME NEW o \in Ops, AsmLogin(o) PROVE OwnerExists'
  BY <1>15, Zenon DEF AsmLogin, Goto
<1>16. ASSUME NEW o \in Ops, AsmStage2(o) PROVE OwnerExists'
  BY <1>16, Zenon DEF AsmStage2, Goto
<1>17. ASSUME NEW o \in Ops, AsmReuseNic(o) PROVE OwnerExists'
  BY <1>17, Zenon DEF AsmReuseNic, Goto
<1>18. ASSUME NEW o \in Ops, AsmCreateNic(o) PROVE OwnerExists'
  BY <1>18, Zenon DEF AsmCreateNic, Goto
<1>19. ASSUME NEW o \in Ops, AsmNoNic(o) PROVE OwnerExists'
  BY <1>19, Zenon DEF AsmNoNic, Release, Goto
<1>20. ASSUME NEW o \in Ops, AsmApplyOffer(o) PROVE OwnerExists'
  BY <1>20, Zenon DEF AsmApplyOffer, Goto
<1>21. ASSUME NEW o \in Ops, AsmApplyFailed(o) PROVE OwnerExists'
  BY <1>21, Zenon DEF AsmApplyFailed, Release, Goto
<1>22. ASSUME NEW o \in Ops, AsmPanic(o) PROVE OwnerExists'
  BY <1>22, Zenon DEF AsmPanic, Goto
<1>23. ASSUME NEW o \in Ops, AsmApplied(o) PROVE OwnerExists'
  BY <1>23 DEF AsmApplied, UndoRoutes, Goto
<1>24. ASSUME NEW o \in Ops, AsmStartPlane(o) PROVE OwnerExists'
  BY <1>24 DEF AsmStartPlane, Goto
<1>25. ASSUME NEW o \in Ops, AsmStartPlaneFailed(o) PROVE OwnerExists'
  BY <1>25, Zenon DEF AsmStartPlaneFailed, UndoRoutes, Goto
<1>26. ASSUME NEW o \in Ops, AsmInstall(o) PROVE OwnerExists'
  BY <1>26, Zenon DEF AsmInstall, CanInstall, Alive, Release, Goto
<1>27. ASSUME NEW o \in Ops, AsmUndone(o) PROVE OwnerExists'
  BY <1>27 DEF AsmUndone, RestoreOnError, Release, Goto
<1>28. ASSUME NEW o \in Ops, AsmFailed(o) PROVE OwnerExists'
  BY <1>28, Zenon DEF AsmFailed, Goto
<1>29. ASSUME NEW o \in Ops, AsmReset(o) PROVE OwnerExists'
  BY <1>29, Zenon DEF AsmReset, Goto
<1>30. ASSUME NEW o \in Ops, SweepTake(o) PROVE OwnerExists'
  BY <1>30, Zenon DEF SweepTake, TakeLive
<1>31. ASSUME NEW o \in Ops, SweepDone(o) PROVE OwnerExists'
  BY <1>31, Zenon DEF SweepDone, RestoreOnError, Release
<1>32. ASSUME NEW c \in Callers, DisconnectTake(c) PROVE OwnerExists'
  BY <1>32, Zenon DEF DisconnectTake, TakeLive, Overtaken
<1>33. ASSUME NEW c \in Callers, DisconnectFailed(c) PROVE OwnerExists'
  BY <1>33 DEF DisconnectFailed, RestoreOnError, Release
<1>34. ASSUME NEW c \in Callers, DisconnectCleaned(c) PROVE OwnerExists'
  BY <1>34, Zenon DEF DisconnectCleaned, RetryPending, Release
<1>35. CASE CleanStop
  BY <1>35, Zenon DEF CleanStop
<1>36. CASE CleanJoin
  BY <1>36, Zenon DEF CleanJoin
<1>37. CASE CleanRoute
  BY <1>37 DEF CleanRoute
<1>38. CASE UNCHANGED <<asm, live, cleaning, cleanStage, pending, routes,
           poisoned>>
  BY <1>38
<1>. QED
  BY <1>1, <1>2, <1>3, <1>4, <1>5, <1>6, <1>7, <1>8, <1>9, <1>10, <1>11,
     <1>12, <1>13, <1>14, <1>15, <1>16, <1>17, <1>18, <1>19, <1>20, <1>21,
     <1>22, <1>23, <1>24, <1>25, <1>26, <1>27, <1>28, <1>29, <1>30, <1>31,
     <1>32, <1>33, <1>34, <1>35, <1>36, <1>37, <1>38, ZenonT(40)
     DEF Next, ApplyStep, AsmStep, WorkerReport, SweepStep, CallStep,
         CleanStep, Quiescent

\* No two roles own the routes of one operation.
LEMMA OneOwner ==
    ASSUME TypeOK, LockDiscipline, RouteRoles, OwnerExists PROVE RoutesOwned
<1> SUFFICES ASSUME ~poisoned, NEW o \in routes
             PROVE  \E t \in RouteOwners(o) : RouteOwners(o) = {t}
  BY Zenon DEF RoutesOwned
<1> USE DEF LockDiscipline, RouteRoles, RouteOwners
<1>1. o \in Ops /\ o # None
  BY IdsAssumption DEF TypeOK
<1>2. CASE live = o
  <2>1. RouteOwners(o) = {"live"}
    BY <1>1, <1>2
  <2>. QED
    BY <2>1, Zenon
<1>3. CASE o \in pending
  <2>1. RouteOwners(o) = {"pending"}
    BY <1>1, <1>3, Zenon
  <2>. QED
    BY <2>1, Zenon
<1>4. CASE cleaning = o /\ cleanStage # "ok"
  <2>1. RouteOwners(o) = {"cleaning"}
    BY <1>1, <1>4, Zenon
  <2>. QED
    BY <2>1, Zenon
<1>5. CASE asm[o] \in {"applied", "startPlane", "install"}
  <2>1. RouteOwners(o) = {"assembly"}
    BY <1>1, <1>5
  <2>. QED
    BY <2>1, Zenon
<1>. QED
  BY <1>2, <1>3, <1>4, <1>5 DEF OwnerExists

\* A plane that takes the next generation shares it with no other.
LEMMA FreshGeneration ==
    ASSUME NEW o \in Ops, generation \in Nat, generation' = generation + 1,
           \A p \in Ops : planeGen[p] <= generation /\ planeGen[p] \in Nat,
           \A p, q \in Ops : planeGen[p] = planeGen[q] /\ planeGen[p] # 0 => p = q,
           planeGen'[o] = generation',
           \A p \in Ops \ {o} : planeGen'[p] = planeGen[p]
    PROVE  /\ \A p, q \in Ops : planeGen'[p] = planeGen'[q] /\ planeGen'[p] # 0 => p = q
           /\ \A p \in Ops : planeGen'[p] <= generation'
           /\ planeGen'[o] # 0
  OBVIOUS

\* Only an assembly that holds resources takes a generation.
LEMMA GenerationStep ==
    ASSUME TypeOK, SingleAssembly, LockDiscipline, Generations, [Next]_vars
    PROVE  Generations'
<1>0. /\ asm \in [Ops -> AsmPcs]
      /\ sweeper \in [Ops -> {"none", "idle", "signalled", "cleaning", "exited"}]
      /\ worker \in [Ops -> {"none", "waiting", "running", "lost", "notified",
                             "published", "exited"}]
      /\ planeGen \in [Ops -> Nat] /\ generation \in Nat
      /\ bound \in [Ops -> Ops \cup {None}]
      /\ live \in Ops \cup {None}
  BY SMTT(30) DEF TypeOK
<1>1. ASSUME NEW c \in Callers,
             Cancel(c) \/ DisconnectBegin(c) \/ DisconnectPoisoned(c) \/
             DisconnectCleaned(c) \/ CloseNic(c) \/ PublishIdle(c)
      PROVE  UNCHANGED <<asm, planeGen, generation, bound, worker, sweeper, live, liveFull>>
  BY <1>1, SMTT(30) DEF Cancel, DisconnectBegin, DisconnectPoisoned, DisconnectCleaned,
         CloseNic, PublishIdle, hostVars, asmVars, planeVars
<1>2. ASSUME CleanStop \/ CleanJoin \/ CleanRoute
      PROVE  UNCHANGED <<asm, planeGen, generation, bound, worker, sweeper, live, liveFull>>
  BY <1>2, Zenon DEF CleanStop, CleanJoin, CleanRoute, hostVars, asmVars, planeVars
<1>3. ASSUME UNCHANGED vars
      PROVE  UNCHANGED <<asm, planeGen, generation, bound, worker, sweeper, live, liveFull>>
  BY <1>3, Zenon DEF vars
<1> USE <1>0, IdsAssumption DEF Generations, SingleAssembly, Running,
        LockDiscipline, BeforeInstall, asmVars, hostVars, planeVars
<1>4. ASSUME NEW o \in Ops, StartRefused(o) PROVE Generations'
  BY <1>4, Zenon DEF StartRefused
<1>5. ASSUME NEW o \in Ops, RefusalReported(o) PROVE Generations'
  BY <1>5, Zenon DEF RefusalReported
<1>6. ASSUME NEW o \in Ops, StartAdopted(o) PROVE Generations'
  BY <1>6, Zenon DEF StartAdopted, CanAdopt, IsConnected
<1>7. ASSUME NEW o \in Ops, StartAccepted(o) PROVE Generations'
  BY <1>7, Zenon DEF StartAccepted
<1>8. ASSUME NEW o \in Ops, AsmBegin(o) PROVE Generations'
  BY <1>8, Zenon DEF AsmBegin, Goto
<1>9. ASSUME NEW o \in Ops, AsmClear(o) PROVE Generations'
  BY <1>9, Zenon DEF AsmClear, TakeLive, Goto
<1>10. ASSUME NEW o \in Ops, AsmPoisoned(o) PROVE Generations'
  BY <1>10, Zenon DEF AsmPoisoned, Goto
<1>11. ASSUME NEW o \in Ops, AsmClearFailed(o) PROVE Generations'
  BY <1>11, Zenon DEF AsmClearFailed, RestoreOnError, Release, Goto
<1>12. ASSUME NEW o \in Ops, AsmCleared(o) PROVE Generations'
  BY <1>12, Zenon DEF AsmCleared, RetryPending, Release, Goto
<1>13. ASSUME NEW o \in Ops, AsmPreflight(o) PROVE Generations'
  BY <1>13, Zenon DEF AsmPreflight, Goto
<1>14. ASSUME NEW o \in Ops, AsmLogin(o) PROVE Generations'
  BY <1>14, Zenon DEF AsmLogin, Goto
<1>15. ASSUME NEW o \in Ops, AsmStage2(o) PROVE Generations'
  BY <1>15, Zenon DEF AsmStage2, Goto
<1>16. ASSUME NEW o \in Ops, AsmReuseNic(o) PROVE Generations'
  BY <1>16, Zenon DEF AsmReuseNic, Goto
<1>17. ASSUME NEW o \in Ops, AsmCreateNic(o) PROVE Generations'
  BY <1>17, Zenon DEF AsmCreateNic, Goto
<1>18. ASSUME NEW o \in Ops, AsmNoNic(o) PROVE Generations'
  BY <1>18, Zenon DEF AsmNoNic, Release, Goto
<1>19. ASSUME NEW o \in Ops, AsmApplyOffer(o) PROVE Generations'
  BY <1>19, Zenon DEF AsmApplyOffer, Goto
<1>20. ASSUME NEW o \in Ops, AsmApplyFailed(o) PROVE Generations'
  BY <1>20, SMTT(30) DEF AsmApplyFailed, Release, Goto
<1>21. ASSUME NEW o \in Ops, AsmPanic(o) PROVE Generations'
  BY <1>21, Zenon DEF AsmPanic, Goto
<1>22. ASSUME NEW o \in Ops, AsmApplied(o) PROVE Generations'
  BY <1>22, SMTT(30) DEF AsmApplied, UndoRoutes, Goto
<1>23. ASSUME NEW o \in Ops, AsmStartPlane(o) PROVE Generations'
  <2>1. /\ live = None /\ live' = None
        /\ \A p \in Ops \ {o} : asm[p] # "install" /\ asm'[p] # "install"
    BY <1>23, Zenon DEF AsmStartPlane, Goto
  <2>2. /\ planeGen'[o] = generation' /\ generation' = generation + 1
        /\ bound'[o] = o /\ generation' \in Nat
    BY <1>23, SMTT(30) DEF AsmStartPlane
  <2>3. \A p \in Ops \ {o} : /\ planeGen'[p] = planeGen[p]
                             /\ worker'[p] = worker[p]
                             /\ sweeper'[p] = sweeper[p]
    BY <1>23, Zenon DEF AsmStartPlane
  <2>4. \A p \in Ops : planeGen[p] <= generation /\ planeGen[p] \in Nat
    BY Zenon
  <2>5. /\ \A p, q \in Ops : planeGen'[p] = planeGen'[q] /\ planeGen'[p] # 0 => p = q
        /\ \A p \in Ops : planeGen'[p] <= generation'
        /\ planeGen'[o] # 0
    BY <2>2, <2>3, <2>4, FreshGeneration, Zenon
  <2>6. \A p \in Ops \ {o} :
            /\ worker'[p] # "none" \/ sweeper'[p] # "none" => planeGen'[p] # 0
            /\ asm'[p] # "install" /\ live' # p
    BY <2>1, <2>3, Zenon
  <2>. QED
    BY <2>2, <2>5, <2>6, Zenon
<1>24. ASSUME NEW o \in Ops, AsmStartPlaneFailed(o) PROVE Generations'
  BY <1>24, Zenon DEF AsmStartPlaneFailed, UndoRoutes, Goto
<1>25. ASSUME NEW o \in Ops, AsmInstall(o) PROVE Generations'
  BY <1>25, SMTT(30) DEF AsmInstall, CanInstall, Alive, Release, Goto
<1>26. ASSUME NEW o \in Ops, AsmUndone(o) PROVE Generations'
  BY <1>26, Zenon DEF AsmUndone, RestoreOnError, Release, Goto
<1>27. ASSUME NEW o \in Ops, AsmFailed(o) PROVE Generations'
  BY <1>27, Zenon DEF AsmFailed, Goto
<1>28. ASSUME NEW o \in Ops, AsmReset(o) PROVE Generations'
  BY <1>28, Zenon DEF AsmReset, Goto
<1>29. ASSUME NEW o \in Ops, WorkerLost(o) PROVE Generations'
  BY <1>29, Zenon DEF WorkerLost
<1>30. ASSUME NEW o \in Ops, WorkerNotify(o) PROVE Generations'
  BY <1>30, Zenon DEF WorkerNotify
<1>31. ASSUME NEW o \in Ops, WorkerPublish(o) PROVE Generations'
  BY <1>31, Zenon DEF WorkerPublish
<1>32. ASSUME NEW o \in Ops, WorkerExit(o) PROVE Generations'
  BY <1>32, Zenon DEF WorkerExit
<1>33. ASSUME NEW o \in Ops, SweepTake(o) PROVE Generations'
  BY <1>33, Zenon DEF SweepTake, TakeLive
<1>34. ASSUME NEW o \in Ops, SweepNothing(o) PROVE Generations'
  BY <1>34, Zenon DEF SweepNothing
<1>35. ASSUME NEW o \in Ops, SweepDone(o) PROVE Generations'
  BY <1>35, Zenon DEF SweepDone, RestoreOnError, Release
<1>36. ASSUME NEW o \in Ops, SweepExit(o) PROVE Generations'
  BY <1>36, Zenon DEF SweepExit
<1>37. ASSUME NEW c \in Callers, DisconnectTake(c) PROVE Generations'
  BY <1>37, Zenon DEF DisconnectTake, TakeLive, Overtaken
<1>38. ASSUME NEW c \in Callers, DisconnectFailed(c) PROVE Generations'
  BY <1>38, Zenon DEF DisconnectFailed, RestoreOnError, Release
<1>39. CASE UNCHANGED <<asm, planeGen, generation, bound, worker, sweeper,
           live, liveFull>>
  BY <1>39
<1>. QED
  BY <1>1, <1>2, <1>3, <1>4, <1>5, <1>6, <1>7, <1>8, <1>9, <1>10, <1>11,
     <1>12, <1>13, <1>14, <1>15, <1>16, <1>17, <1>18, <1>19, <1>20, <1>21,
     <1>22, <1>23, <1>24, <1>25, <1>26, <1>27, <1>28, <1>29, <1>30, <1>31,
     <1>32, <1>33, <1>34, <1>35, <1>36, <1>37, <1>38, <1>39, ZenonT(40)
     DEF Next, ApplyStep, AsmStep, WorkerReport, SweepStep, CallStep,
         CleanStep, Quiescent

\* A signal that passes the generation guard belongs to the tunnel in live.
LEMMA SweeperStep ==
    ASSUME TypeOK, LockDiscipline, Generations, SweeperSparesOthers,
           [Next]_vars
    PROVE  SweeperSparesOthers'
<1>0. /\ sweeper \in [Ops -> {"none", "idle", "signalled", "cleaning", "exited"}]
      /\ live \in Ops \cup {None}
      /\ planeGen \in [Ops -> Nat] /\ generation \in Nat
  BY Zenon DEF TypeOK
<1>1. ASSUME NEW o \in Ops,
             StartRefused(o) \/ RefusalReported(o) \/ StartAdopted(o) \/
             StartAccepted(o)
      PROVE  UNCHANGED <<sweeper, cleaning, cleanStage>>
  BY <1>1, Zenon DEF StartRefused, RefusalReported, StartAdopted, StartAccepted,
         lockVars
<1>2. ASSUME NEW o \in Ops,
             AsmBegin(o) \/ AsmPoisoned(o) \/ AsmPreflight(o) \/ AsmLogin(o)
             \/ AsmStage2(o) \/ AsmReuseNic(o) \/ AsmCreateNic(o) \/
             AsmApplyOffer(o) \/ AsmPanic(o) \/ AsmFailed(o) \/ AsmReset(o)
      PROVE  UNCHANGED <<sweeper, cleaning, cleanStage>>
  BY <1>2, Zenon DEF AsmBegin, AsmPoisoned, AsmPreflight, AsmLogin, AsmStage2,
         AsmReuseNic, AsmCreateNic, AsmApplyOffer, AsmPanic, AsmFailed,
         AsmReset, lockVars
<1>3. ASSUME NEW o \in Ops, WorkerLost(o) \/ WorkerPublish(o) \/ WorkerExit(o)
      PROVE  UNCHANGED <<sweeper, cleaning, cleanStage>>
  BY <1>3, Zenon DEF WorkerLost, WorkerPublish, WorkerExit, lockVars
<1>4. ASSUME NEW c \in Callers,
             Cancel(c) \/ DisconnectBegin(c) \/ DisconnectPoisoned(c) \/
             CloseNic(c) \/ PublishIdle(c)
      PROVE  UNCHANGED <<sweeper, cleaning, cleanStage>>
  BY <1>4 DEF Cancel, DisconnectBegin, DisconnectPoisoned, CloseNic,
         PublishIdle, lockVars
<1>5. ASSUME UNCHANGED vars
      PROVE  UNCHANGED <<sweeper, cleaning, cleanStage>>
  BY <1>5, Zenon DEF vars
<1> USE <1>0, NoneAssumption, IdsAssumption DEF SweeperSparesOthers,
        LockDiscipline, InStage2, Generations, Threads, AsmThread,
        SweepThread, CallThread, lockVars
<1>6. ASSUME NEW o \in Ops, AsmClear(o) PROVE SweeperSparesOthers'
  BY <1>6, Zenon DEF AsmClear, TakeLive, Goto
<1>7. ASSUME NEW o \in Ops, AsmClearFailed(o) PROVE SweeperSparesOthers'
  BY <1>7, Zenon DEF AsmClearFailed, RestoreOnError, Release, Goto
<1>8. ASSUME NEW o \in Ops, AsmCleared(o) PROVE SweeperSparesOthers'
  BY <1>8, Zenon DEF AsmCleared, RetryPending, Release, Goto
<1>9. ASSUME NEW o \in Ops, AsmNoNic(o) PROVE SweeperSparesOthers'
  BY <1>9, Zenon DEF AsmNoNic, Release, Goto
<1>10. ASSUME NEW o \in Ops, AsmApplyFailed(o) PROVE SweeperSparesOthers'
  BY <1>10, Zenon DEF AsmApplyFailed, Release, Goto
<1>11. ASSUME NEW o \in Ops, AsmApplied(o) PROVE SweeperSparesOthers'
  BY <1>11, Zenon DEF AsmApplied, UndoRoutes, Goto
<1>12. ASSUME NEW o \in Ops, AsmStartPlane(o) PROVE SweeperSparesOthers'
  BY <1>12, Zenon DEF AsmStartPlane, Goto
<1>13. ASSUME NEW o \in Ops, AsmStartPlaneFailed(o) PROVE SweeperSparesOthers'
  BY <1>13, Zenon DEF AsmStartPlaneFailed, UndoRoutes, Goto
<1>14. ASSUME NEW o \in Ops, AsmInstall(o) PROVE SweeperSparesOthers'
  <2>1. sweeper' = sweeper
    BY <1>14, ZenonT(40) DEF AsmInstall
  <2>2. \A p \in Ops : sweeper[p] # "cleaning"
    <3>1. res = AsmThread(o)
      BY <1>14, Zenon DEF AsmInstall
    <3>2. \A p \in Ops : AsmThread(o) # SweepThread(p)
      BY Zenon
    <3>. QED
      BY <3>1, <3>2, Zenon
  <2>. QED
    BY <2>1, <2>2, Zenon DEF SweeperSparesOthers
<1>15. ASSUME NEW o \in Ops, AsmUndone(o) PROVE SweeperSparesOthers'
  BY <1>15, Zenon DEF AsmUndone, RestoreOnError, Release, Goto
<1>16. ASSUME NEW o \in Ops, WorkerNotify(o) PROVE SweeperSparesOthers'
  BY <1>16, Zenon DEF WorkerNotify
<1>17. ASSUME NEW o \in Ops, SweepTake(o) PROVE SweeperSparesOthers'
  BY <1>17, Zenon DEF SweepTake, TakeLive, SignalCurrent
<1>18. ASSUME NEW o \in Ops, SweepNothing(o) PROVE SweeperSparesOthers'
  BY <1>18, Zenon DEF SweepNothing
<1>19. ASSUME NEW o \in Ops, SweepDone(o) PROVE SweeperSparesOthers'
  BY <1>19, Zenon DEF SweepDone, RestoreOnError, Release
<1>20. ASSUME NEW o \in Ops, SweepExit(o) PROVE SweeperSparesOthers'
  BY <1>20, SMTT(30) DEF SweepExit
<1>21. ASSUME NEW c \in Callers, DisconnectTake(c) PROVE SweeperSparesOthers'
  BY <1>21, ZenonT(40) DEF DisconnectTake, TakeLive, Overtaken
<1>22. ASSUME NEW c \in Callers, DisconnectFailed(c)
      PROVE  SweeperSparesOthers'
  BY <1>22, Zenon DEF DisconnectFailed, RestoreOnError, Release
<1>23. ASSUME NEW c \in Callers, DisconnectCleaned(c)
      PROVE  SweeperSparesOthers'
  BY <1>23, SMTT(30) DEF DisconnectCleaned, RetryPending, Release
<1>24. CASE CleanStop
  BY <1>24, ZenonT(40) DEF CleanStop
<1>25. CASE CleanJoin
  BY <1>25, ZenonT(40) DEF CleanJoin
<1>26. CASE CleanRoute
  BY <1>26, Zenon DEF CleanRoute
<1>27. CASE UNCHANGED <<sweeper, cleaning, cleanStage>>
  BY <1>27
<1>. QED
  BY <1>1, <1>2, <1>3, <1>4, <1>5, <1>6, <1>7, <1>8, <1>9, <1>10, <1>11,
     <1>12, <1>13, <1>14, <1>15, <1>16, <1>17, <1>18, <1>19, <1>20, <1>21,
     <1>22, <1>23, <1>24, <1>25, <1>26, <1>27, ZenonT(40)
     DEF Next, ApplyStep, AsmStep, WorkerReport, SweepStep, CallStep,
         CleanStep, Quiescent

\* What a step does to live and its workers when it connects nothing.
NotConnecting ==
    \/ live' = None
    \/ ~liveFull'
    \/ /\ UNCHANGED <<live, liveFull, stop>>
       /\ \A p \in Ops : worker'[p] \in {"waiting", "running"}
                          => worker'[p] = worker[p]

\* Only install_live connects a tunnel.
LEMMA ConnectedStep ==
    ASSUME TypeOK, LockDiscipline, [Next]_vars,
           \A o \in Ops : ~(AsmInstall(o) /\ CanInstall(o))
    PROVE  NotConnecting
<1>0. /\ worker \in [Ops -> {"none", "waiting", "running", "lost", "notified",
                             "published", "exited"}]
      /\ stop \in [Ops -> BOOLEAN]
  BY Zenon DEF TypeOK
<1>1. ASSUME NEW o \in Ops,
             StartRefused(o) \/ RefusalReported(o) \/ StartAdopted(o) \/
             StartAccepted(o)
      PROVE  UNCHANGED <<live, liveFull, stop, worker>>
  BY <1>1, SMTT(30) DEF StartRefused, RefusalReported, StartAdopted, StartAccepted,
         hostVars, planeVars
<1>2. ASSUME NEW o \in Ops,
             AsmBegin(o) \/ AsmPoisoned(o) \/ AsmCleared(o) \/ AsmPreflight(o)
             \/ AsmLogin(o) \/ AsmReuseNic(o) \/ AsmCreateNic(o) \/
             AsmNoNic(o) \/ AsmApplyOffer(o) \/ AsmApplyFailed(o) \/
             AsmPanic(o) \/ AsmApplied(o) \/ AsmStartPlaneFailed(o) \/
             AsmFailed(o) \/ AsmReset(o)
      PROVE  UNCHANGED <<live, liveFull, stop, worker>>
  BY <1>2, Zenon DEF AsmBegin, AsmPoisoned, AsmCleared, AsmPreflight, AsmLogin,
         AsmReuseNic, AsmCreateNic, AsmNoNic, AsmApplyOffer, AsmApplyFailed,
         AsmPanic, AsmApplied, AsmStartPlaneFailed, AsmFailed, AsmReset,
         hostVars, planeVars
<1>3. ASSUME NEW o \in Ops, SweepNothing(o) \/ SweepExit(o)
      PROVE  UNCHANGED <<live, liveFull, stop, worker>>
  BY <1>3, ZenonT(40) DEF SweepNothing, SweepExit, hostVars, planeVars
<1>4. ASSUME NEW c \in Callers,
             Cancel(c) \/ DisconnectBegin(c) \/ DisconnectPoisoned(c) \/
             DisconnectCleaned(c) \/ CloseNic(c) \/ PublishIdle(c)
      PROVE  UNCHANGED <<live, liveFull, stop, worker>>
  BY <1>4, Zenon DEF Cancel, DisconnectBegin, DisconnectPoisoned, DisconnectCleaned,
         CloseNic, PublishIdle, hostVars, planeVars
<1>5. ASSUME CleanJoin \/ CleanRoute
      PROVE  UNCHANGED <<live, liveFull, stop, worker>>
  BY <1>5, Zenon DEF CleanJoin, CleanRoute, hostVars, planeVars
<1>6. ASSUME UNCHANGED vars
      PROVE  UNCHANGED <<live, liveFull, stop, worker>>
  BY <1>6, Zenon DEF vars
<1> USE <1>0 DEF NotConnecting, LockDiscipline, BeforeInstall, hostVars,
        planeVars
<1>7. ASSUME NEW o \in Ops, AsmClear(o) PROVE NotConnecting
  BY <1>7, Zenon DEF AsmClear, TakeLive, Goto
<1>8. ASSUME NEW o \in Ops, AsmClearFailed(o) PROVE NotConnecting
  BY <1>8, Zenon DEF AsmClearFailed, RestoreOnError, Release, Goto
<1>9. ASSUME NEW o \in Ops, AsmStage2(o) PROVE NotConnecting
  BY <1>9, ZenonT(40) DEF AsmStage2, Goto
<1>10. ASSUME NEW o \in Ops, AsmStartPlane(o) PROVE NotConnecting
  BY <1>10, SMTT(30) DEF AsmStartPlane, Goto
<1>11. ASSUME NEW o \in Ops, AsmInstall(o) PROVE NotConnecting
  BY <1>11, ZenonT(40) DEF AsmInstall, CanInstall, Alive, Release, Goto
<1>12. ASSUME NEW o \in Ops, AsmUndone(o) PROVE NotConnecting
  BY <1>12, ZenonT(40) DEF AsmUndone, RestoreOnError, Release, Goto
<1>13. ASSUME NEW o \in Ops, WorkerLost(o) PROVE NotConnecting
  BY <1>13, Zenon DEF WorkerLost
<1>14. ASSUME NEW o \in Ops, WorkerNotify(o) PROVE NotConnecting
  BY <1>14, Zenon DEF WorkerNotify
<1>15. ASSUME NEW o \in Ops, WorkerPublish(o) PROVE NotConnecting
  BY <1>15, Zenon DEF WorkerPublish
<1>16. ASSUME NEW o \in Ops, WorkerExit(o) PROVE NotConnecting
  BY <1>16, Zenon DEF WorkerExit
<1>17. ASSUME NEW o \in Ops, SweepTake(o) PROVE NotConnecting
  BY <1>17, Zenon DEF SweepTake, TakeLive
<1>18. ASSUME NEW o \in Ops, SweepDone(o) PROVE NotConnecting
  BY <1>18, SMTT(30) DEF SweepDone, RestoreOnError, Release
<1>19. ASSUME NEW c \in Callers, DisconnectTake(c) PROVE NotConnecting
  BY <1>19, ZenonT(40) DEF DisconnectTake, TakeLive, Overtaken
<1>20. ASSUME NEW c \in Callers, DisconnectFailed(c) PROVE NotConnecting
  BY <1>20, Zenon DEF DisconnectFailed, RestoreOnError, Release
<1>21. CASE CleanStop
  BY <1>21, ZenonT(40) DEF CleanStop
<1>22. CASE UNCHANGED <<live, liveFull, stop, worker>>
  BY <1>22, Zenon
<1>. QED
  BY <1>1, <1>2, <1>3, <1>4, <1>5, <1>6, <1>7, <1>8, <1>9, <1>10, <1>11,
     <1>12, <1>13, <1>14, <1>15, <1>16, <1>17, <1>18, <1>19, <1>20, <1>21,
     <1>22, ZenonT(40)
     DEF Next, ApplyStep, AsmStep, WorkerReport, SweepStep, CallStep,
         CleanStep, Quiescent

\* A step that connects nothing leaves a connected tunnel or disconnects it.
LEMMA StaysConnected ==
    ASSUME TypeOK, NotConnecting, IsConnected'
    PROVE  IsConnected /\ live' = live
<1>1. live' # None /\ liveFull'
  BY DEF IsConnected
<1>2. /\ UNCHANGED <<live, liveFull, stop>>
      /\ \A p \in Ops : worker'[p] \in {"waiting", "running"}
                         => worker'[p] = worker[p]
  BY <1>1, Zenon DEF NotConnecting
<1>3. live \in Ops
  BY <1>1, <1>2, SMTT(30) DEF TypeOK
<1>. QED
  BY <1>1, <1>2, <1>3 DEF IsConnected, Alive

\* Who writes paused.
LEMMA PausedFrame ==
    ASSUME [Next]_vars,
           \A o \in Ops : ~StartAccepted(o) /\ ~AsmInstall(o) /\ ~SweepDone(o),
           \A c \in Callers : ~DisconnectCleaned(c)
    PROVE  paused' = paused
<1>1. ASSUME NEW o \in Ops, ApplyStep(o)
      PROVE  paused' = paused
  BY <1>1 DEF ApplyStep, StartRefused, RefusalReported, StartAdopted,
         StartAccepted, flagVars
<1>2. ASSUME NEW o \in Ops, AsmStep(o)
      PROVE  paused' = paused
  BY <1>2, ZenonT(40) DEF AsmStep, AsmBegin, AsmClear, AsmPoisoned,
         AsmClearFailed,
         AsmCleared, AsmPreflight, AsmLogin, AsmStage2, AsmReuseNic,
         AsmCreateNic, AsmNoNic, AsmApplyOffer, AsmApplyFailed, AsmPanic,
         AsmApplied, AsmStartPlane, AsmStartPlaneFailed, AsmInstall,
         AsmUndone, AsmFailed, AsmReset, flagVars
<1>3. ASSUME NEW o \in Ops, WorkerLost(o) \/ WorkerReport(o)
      PROVE  paused' = paused
  BY <1>3, ZenonT(40) DEF WorkerReport, WorkerLost, WorkerNotify,
         WorkerPublish,
         WorkerExit, flagVars
<1>4. ASSUME NEW o \in Ops, SweepStep(o)
      PROVE  paused' = paused
  BY <1>4, ZenonT(40) DEF SweepStep, SweepTake, SweepNothing, SweepDone,
         SweepExit,
         flagVars
<1>5. ASSUME NEW c \in Callers, CallStep(c)
      PROVE  paused' = paused
  BY <1>5 DEF CallStep, Cancel, DisconnectBegin, DisconnectTake,
         DisconnectPoisoned, DisconnectFailed, DisconnectCleaned, CloseNic,
         PublishIdle, flagVars
<1>6. ASSUME CleanStep
      PROVE  paused' = paused
  BY <1>6, Zenon DEF CleanStep, CleanStop, CleanJoin, CleanRoute, flagVars
<1>7. ASSUME UNCHANGED vars
      PROVE  paused' = paused
  BY <1>7 DEF vars
<1>. QED
  BY <1>1, <1>2, <1>3, <1>4, <1>5, <1>6, <1>7, ZenonT(40) DEF Next, Quiescent

\* paused is set only by threads that hold resources and have emptied live.
LEMMA PausedStep ==
    ASSUME TypeOK, LockDiscipline, ConnectedNotPaused, [Next]_vars
    PROVE  ConnectedNotPaused'
<1>1. ASSUME NEW o \in Ops, StartAccepted(o)
      PROVE  ConnectedNotPaused'
  BY <1>1 DEF StartAccepted, ConnectedNotPaused
<1>2. ASSUME NEW o \in Ops, AsmInstall(o)
      PROVE  ConnectedNotPaused'
  <2>1. CASE CanInstall(o)
    BY <1>2, <2>1 DEF AsmInstall, ConnectedNotPaused
  <2>2. CASE ~CanInstall(o)
    <3>1. live' = None
      BY <1>2, <2>2, Zenon DEF AsmInstall, LockDiscipline, BeforeInstall
    <3>. QED
      BY <3>1, SMTT(30) DEF ConnectedNotPaused, IsConnected
  <2>. QED
    BY <2>1, <2>2, Zenon
<1>3. ASSUME NEW o \in Ops, SweepDone(o)
      PROVE  ConnectedNotPaused'
  <2>1. live' = None \/ ~liveFull'
    BY <1>3 DEF SweepDone, RestoreOnError, LockDiscipline
  <2>. QED
    BY <2>1, Zenon DEF ConnectedNotPaused, IsConnected
<1>4. ASSUME NEW c \in Callers, DisconnectCleaned(c)
      PROVE  ConnectedNotPaused'
  <2>1. live' = None
    BY <1>4, Zenon DEF DisconnectCleaned, LockDiscipline
  <2>. QED
    BY <2>1 DEF ConnectedNotPaused, IsConnected
<1>5. ASSUME \A o \in Ops : ~StartAccepted(o) /\ ~AsmInstall(o) /\ ~SweepDone(o),
             \A c \in Callers : ~DisconnectCleaned(c)
      PROVE  ConnectedNotPaused'
  <2>1. paused' = paused
    BY <1>5, PausedFrame
  <2>2. NotConnecting
    BY <1>5, ConnectedStep
  <2>. QED
    BY <2>1, <2>2, StaysConnected DEF ConnectedNotPaused
<1>. QED
  BY <1>1, <1>2, <1>3, <1>4, <1>5, Zenon

\* Every event but Connected leaves the last Connected alone or replaces it.
LEMMA PublishStep ==
    ASSUME NEW e, Publish(e), e.phase # "Connected"
    PROVE  latest'.phase = "Connected" => latest' = latest
  BY DEF Publish

\* Who publishes Connected.
LEMMA LatestFrame ==
    ASSUME [Next]_vars,
           \A o \in Ops : ~StartAdopted(o) /\ ~(AsmInstall(o) /\ CanInstall(o))
    PROVE  latest'.phase = "Connected" => latest' = latest
<1> USE PublishStep DEF Event
<1>1. ASSUME NEW o \in Ops, ApplyStep(o)
      PROVE  latest'.phase = "Connected" => latest' = latest
  BY <1>1 DEF ApplyStep, StartRefused, RefusalReported, StartAdopted,
         StartAccepted
<1>2. ASSUME NEW o \in Ops, AsmStep(o)
      PROVE  latest'.phase = "Connected" => latest' = latest
  BY <1>2, Zenon DEF AsmStep, AsmBegin, AsmClear, AsmPoisoned, AsmClearFailed,
         AsmCleared, AsmPreflight, AsmLogin, AsmStage2, AsmReuseNic,
         AsmCreateNic, AsmNoNic, AsmApplyOffer, AsmApplyFailed, AsmPanic,
         AsmApplied, AsmStartPlane, AsmStartPlaneFailed, AsmInstall,
         AsmUndone, AsmFailed, AsmReset
<1>3. ASSUME NEW o \in Ops, WorkerLost(o) \/ WorkerReport(o)
      PROVE  latest'.phase = "Connected" => latest' = latest
  BY <1>3, Zenon DEF WorkerReport, WorkerLost, WorkerNotify, WorkerPublish,
         WorkerExit
<1>4. ASSUME NEW o \in Ops, SweepStep(o)
      PROVE  latest'.phase = "Connected" => latest' = latest
  BY <1>4, ZenonT(40) DEF SweepStep, SweepTake, SweepNothing, SweepDone, SweepExit
<1>5. ASSUME NEW c \in Callers, CallStep(c)
      PROVE  latest'.phase = "Connected" => latest' = latest
  BY <1>5, ZenonT(40) DEF CallStep, Cancel, DisconnectBegin, DisconnectTake,
         DisconnectPoisoned, DisconnectFailed, DisconnectCleaned, CloseNic,
         PublishIdle
<1>6. ASSUME CleanStep
      PROVE  latest'.phase = "Connected" => latest' = latest
  BY <1>6, ZenonT(40) DEF CleanStep, CleanStop, CleanJoin, CleanRoute
<1>7. ASSUME UNCHANGED vars
      PROVE  latest'.phase = "Connected" => latest' = latest
  BY <1>7, SMTT(30) DEF vars
<1>. QED
  BY <1>1, <1>2, <1>3, <1>4, <1>5, <1>6, <1>7, ZenonT(40) DEF Next, Quiescent

\* Who binds a data plane to an operation.
LEMMA BoundFrame ==
    ASSUME [Next]_vars,
           \A o \in Ops : ~StartAdopted(o) /\ ~AsmStartPlane(o)
    PROVE  bound' = bound
<1>1. ASSUME NEW o \in Ops, ApplyStep(o)
      PROVE  bound' = bound
  BY <1>1 DEF ApplyStep, StartRefused, RefusalReported, StartAdopted,
         StartAccepted, planeVars
<1>2. ASSUME NEW o \in Ops, AsmStep(o)
      PROVE  bound' = bound
  BY <1>2, Zenon DEF AsmStep, AsmBegin, AsmClear, AsmPoisoned, AsmClearFailed,
         AsmCleared, AsmPreflight, AsmLogin, AsmStage2, AsmReuseNic,
         AsmCreateNic, AsmNoNic, AsmApplyOffer, AsmApplyFailed, AsmPanic,
         AsmApplied, AsmStartPlane, AsmStartPlaneFailed, AsmInstall,
         AsmUndone, AsmFailed, AsmReset, planeVars
<1>3. ASSUME NEW o \in Ops, WorkerLost(o) \/ WorkerReport(o)
      PROVE  bound' = bound
  BY <1>3, Zenon DEF WorkerReport, WorkerLost, WorkerNotify, WorkerPublish,
         WorkerExit
<1>4. ASSUME NEW o \in Ops, SweepStep(o)
      PROVE  bound' = bound
  BY <1>4, ZenonT(40) DEF SweepStep, SweepTake, SweepNothing, SweepDone,
         SweepExit,
         planeVars
<1>5. ASSUME NEW c \in Callers, CallStep(c)
      PROVE  bound' = bound
  BY <1>5, Zenon DEF CallStep, Cancel, DisconnectBegin, DisconnectTake,
         DisconnectPoisoned, DisconnectFailed, DisconnectCleaned, CloseNic,
         PublishIdle, planeVars
<1>6. ASSUME CleanStep
      PROVE  bound' = bound
  BY <1>6, ZenonT(40) DEF CleanStep, CleanStop, CleanJoin, CleanRoute, planeVars
<1>7. ASSUME UNCHANGED vars
      PROVE  bound' = bound
  BY <1>7, Zenon DEF vars
<1>. QED
  BY <1>1, <1>2, <1>3, <1>4, <1>5, <1>6, <1>7, ZenonT(40) DEF Next, Quiescent

\* An event names the operation it was made for.
LEMMA EventOp == \A o \in Ops : Event(o, "Connected").op = o
  BY DEF Event

\* Adopt rebinds the loss report in the critical section that publishes, and
\* install_live publishes for the operation its plane was started for.
LEMMA LossStep ==
    ASSUME TypeOK, LockDiscipline, Generations, LossNamesAdopter, [Next]_vars
    PROVE  LossNamesAdopter'
<1>1. ASSUME NEW o \in Ops, StartAdopted(o)
      PROVE  LossNamesAdopter'
  <2>1. live \in Ops /\ bound \in [Ops -> Ops \cup {None}]
    BY <1>1 DEF StartAdopted, CanAdopt, IsConnected, TypeOK
  <2>2. live' = live /\ bound'[live] = o
    BY <1>1, <2>1, Zenon DEF StartAdopted, hostVars
  <2>3. latest' = Event(o, "Connected") \/ latest'.phase # "Connected"
    BY <1>1, SMTT(30) DEF StartAdopted, Publish, Suppressed
  <2>4. latest'.op = o \/ latest'.phase # "Connected"
    BY <2>3, EventOp, Zenon
  <2>. QED
    BY <2>2, <2>4, Zenon DEF LossNamesAdopter
<1>2. ASSUME NEW o \in Ops, AsmInstall(o), CanInstall(o)
      PROVE  LossNamesAdopter'
  <2>1. live' = o /\ bound'[o] = o
    BY <1>2, ZenonT(40) DEF AsmInstall, Generations
  <2>2. latest' = Event(o, "Connected") \/ latest'.phase # "Connected"
    BY <1>2, Zenon DEF AsmInstall, Publish, Suppressed
  <2>. QED
    BY <2>1, <2>2, SMTT(30) DEF LossNamesAdopter, Event
<1>3. ASSUME NEW o \in Ops, AsmStartPlane(o)
      PROVE  LossNamesAdopter'
  <2>1. live' = None
    BY <1>3, Zenon DEF AsmStartPlane, LockDiscipline, BeforeInstall, hostVars
  <2>. QED
    BY <2>1, Zenon DEF LossNamesAdopter, IsConnected
<1>4. ASSUME \A o \in Ops : ~StartAdopted(o) /\ ~AsmStartPlane(o),
             \A o \in Ops : ~(AsmInstall(o) /\ CanInstall(o))
      PROVE  LossNamesAdopter'
  <2>1. latest'.phase = "Connected" => latest' = latest
    BY <1>4, LatestFrame, Zenon
  <2>2. bound' = bound
    BY <1>4, BoundFrame
  <2>3. NotConnecting
    BY <1>4, ConnectedStep
  <2>. QED
    BY <2>1, <2>2, <2>3, StaysConnected, Zenon DEF LossNamesAdopter
<1>. QED
  BY <1>1, <1>2, <1>3, <1>4, Zenon

-----------------------------------------------------------------------------
Inv ==
    /\ TypeOK
    /\ SingleAssembly
    /\ LockDiscipline
    /\ TokenHeld
    /\ RevokedNeverInstalled
    /\ StoppedStaysDown
    /\ ConnectedNotPaused
    /\ JoinedBeforeSessionEnd
    /\ Generations
    /\ SweeperSparesOthers
    /\ LossNamesAdopter
    /\ RouteRoles
    /\ OwnerExists

\* The runtime that RealTunnelRuntime::new returns satisfies the invariant.
LEMMA InitInv == Init => Inv
<1> SUFFICES ASSUME Init PROVE Inv
  OBVIOUS
<1>1. TypeOK
  BY Zenon DEF Init, TypeOK, AsmPcs, CallPcs, NoEvent, Phases
<1>2. SingleAssembly /\ TokenHeld /\ RevokedNeverInstalled /\ StoppedStaysDown
  BY Zenon DEF Init, SingleAssembly, Running, TokenHeld, RevokedNeverInstalled,
         StoppedStaysDown
<1>3. LockDiscipline
  BY DEF Init, LockDiscipline, BeforeInstall, InStage2
<1>4. ConnectedNotPaused /\ JoinedBeforeSessionEnd /\ SweeperSparesOthers
  BY Zenon DEF Init, ConnectedNotPaused, IsConnected, JoinedBeforeSessionEnd,
         SweeperSparesOthers
<1>5. Generations /\ LossNamesAdopter
  BY IdsAssumption DEF Init, Generations, LossNamesAdopter, IsConnected
<1>6. RouteRoles /\ OwnerExists
  BY IdsAssumption, Zenon DEF Init, RouteRoles, OwnerExists
<1>. QED
  BY <1>1, <1>2, <1>3, <1>4, <1>5, <1>6 DEF Inv

\* Every step preserves it.
LEMMA InvStep == ASSUME Inv, [Next]_vars PROVE Inv'
  BY TypeStep, AssemblyStep, LockStep, TokenStep, PausedStep, JoinedStep,
     GenerationStep, SweeperStep, LossStep, RolesStep, OwnerStep DEF Inv

\* Every reachable state satisfies the inductive invariant.
THEOREM Invariance == Spec => []Inv
<1>1. Inv /\ [Next]_vars => Inv'
  BY InvStep
<1>. QED
  BY InitInv, <1>1, PTL DEF Spec

\* Each variable keeps its type in every behaviour of the runtime.
THEOREM TypeCorrect == Spec => []TypeOK
<1>1. Inv => TypeOK
  BY DEF Inv
<1>. QED
  BY Invariance, <1>1, PTL

\* `assembling' admits one assembly thread at a time, however many requests
\* arrive.
THEOREM OneAssemblyAtATime == Spec => []SingleAssembly
<1>1. Inv => SingleAssembly
  BY DEF Inv
<1>. QED
  BY Invariance, <1>1, PTL

\* install_live never commits an assembly that a cancel or disconnect
\* overtook.
THEOREM CancelWins == Spec => []RevokedNeverInstalled
<1>1. Inv => RevokedNeverInstalled
  BY DEF Inv
<1>. QED
  BY Invariance, <1>1, PTL

\* No tunnel of an operation that a disconnect knew of comes up after it.
THEOREM StopIsFinal == Spec => []StoppedStaysDown
<1>1. Inv => StoppedStaysDown
  BY DEF Inv
<1>. QED
  BY Invariance, <1>1, PTL

\* is_connected and is_paused are never both true.
THEOREM PausedExcludesConnected == Spec => []ConnectedNotPaused
<1>1. Inv => ConnectedNotPaused
  BY DEF Inv
<1>. QED
  BY Invariance, <1>1, PTL

\* A Wintun session is dropped only after its workers have been joined.
THEOREM WorkersJoinedFirst == Spec => []JoinedBeforeSessionEnd
<1>1. Inv => JoinedBeforeSessionEnd
  BY DEF Inv
<1>. QED
  BY Invariance, <1>1, PTL

\* A late loss signal never makes a sweeper stop a newer data plane.
THEOREM StaleSignalHarmless == Spec => []SweeperSparesOthers
<1>1. Inv => SweeperSparesOthers
  BY DEF Inv
<1>. QED
  BY Invariance, <1>1, PTL

\* After a handover the loss of the tunnel is reported for the adopting
\* operation.
THEOREM LossReportedForAdopter == Spec => []LossNamesAdopter
<1>1. Inv => LossNamesAdopter
  BY DEF Inv
<1>. QED
  BY Invariance, <1>1, PTL

\* Each configured route has exactly one owner that will remove it, unless a
\* panic poisoned resources.
THEOREM EveryRouteHasOneOwner == Spec => []RoutesOwned
<1>1. Inv => RoutesOwned
  BY OneOwner, Zenon DEF Inv
<1>. QED
  BY Invariance, <1>1, PTL

\* Between clear_previous_connection and install_live, live is empty.
THEOREM InstallOverwritesNothing == Spec => []NoTunnelBeforeInstall
<1>1. Inv => NoTunnelBeforeInstall
  BY DEF Inv, NoTunnelBeforeInstall, LockDiscipline, BeforeInstall, InStage2
<1>. QED
  BY Invariance, <1>1, PTL
=============================================================================
