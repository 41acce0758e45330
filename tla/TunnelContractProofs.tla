------------------------ MODULE TunnelContractProofs ------------------------
(***************************************************************************)
(* The runtime implements RuntimeContract.  Its mapping names the assembly *)
(* that runs and the data plane that may still report: SingleAssembly makes*)
(* the first unique, PlaneHome the second.                                 *)
(***************************************************************************)
EXTENDS TunnelRuntimeProofs

\* A worker group that may still report is the one in live, or the one whose
\* cleanup has not joined it yet; the workers of a tunnel in live have started.
PlaneHome ==
    \A p \in Ops :
        /\ worker[p] \in {"running", "lost", "notified"}
             => \/ live = p /\ liveFull
                \/ cleaning = p /\ cleanStage \in {"stop", "join"}
        /\ live = p /\ liveFull => worker[p] \notin {"none", "waiting"}

\* A sweeper is signalled only by workers that have failed.
Signalled ==
    \A o \in Ops : sweeper[o] = "signalled"
                      => worker[o] \notin {"none", "waiting", "running"}

\* What the refinement rests on.
RefInv == Inv /\ PlaneHome /\ Signalled

\* Workers report from a tunnel in live, or while its cleanup waits for them.
LEMMA HomeStep ==
    ASSUME TypeOK, LockDiscipline, PlaneHome, [Next]_vars PROVE PlaneHome'
<1>0. /\ asm \in [Ops -> AsmPcs]
      /\ live \in Ops \cup {None} /\ liveFull \in BOOLEAN
      /\ cleaning \in Ops \cup {None}
      /\ worker \in [Ops -> {"none", "waiting", "running", "lost", "notified",
                             "published", "exited"}]
  BY DEF TypeOK
<1>1. ASSUME NEW o \in Ops,
             StartRefused(o) \/ RefusalReported(o)
             \/ StartAdopted(o) \/ StartAccepted(o)
             \/ AsmBegin(o) \/ AsmPoisoned(o)
      PROVE  UNCHANGED <<worker, live, liveFull, cleaning, cleanStage>>
  BY <1>1, Zenon DEF StartRefused, RefusalReported, StartAdopted,
     StartAccepted, AsmBegin, Goto, AsmPoisoned, flagVars, hostVars,
     lockVars, asmVars, planeVars
<1>2. ASSUME NEW o \in Ops,
             AsmPreflight(o) \/ AsmLogin(o) \/ AsmReuseNic(o)
             \/ AsmCreateNic(o) \/ AsmApplyOffer(o)
             \/ AsmPanic(o)
      PROVE  UNCHANGED <<worker, live, liveFull, cleaning, cleanStage>>
  BY <1>2, Zenon DEF AsmPreflight, Goto, AsmLogin, AsmReuseNic,
     AsmCreateNic, AsmApplyOffer, AsmPanic, flagVars, hostVars, lockVars,
     asmVars, planeVars
<1>3. ASSUME NEW o \in Ops,
             AsmFailed(o) \/ AsmReset(o) \/ SweepNothing(o)
             \/ SweepExit(o)
      PROVE  UNCHANGED <<worker, live, liveFull, cleaning, cleanStage>>
  BY <1>3, Zenon DEF AsmFailed, Goto, AsmReset, SweepNothing, SweepExit,
     flagVars, hostVars, lockVars, asmVars, planeVars
<1>4. ASSUME NEW c \in Callers,
             Cancel(c) \/ DisconnectBegin(c)
             \/ DisconnectPoisoned(c) \/ CloseNic(c)
             \/ PublishIdle(c)
      PROVE  UNCHANGED <<worker, live, liveFull, cleaning, cleanStage>>
  BY <1>4, Zenon DEF Cancel, DisconnectBegin, DisconnectPoisoned, CloseNic,
     PublishIdle, flagVars, hostVars, lockVars, asmVars, planeVars
<1>5. ASSUME UNCHANGED vars
      PROVE  UNCHANGED <<worker, live, liveFull, cleaning, cleanStage>>
  BY <1>5 DEF vars
<1>6. CASE UNCHANGED <<worker, live, liveFull, cleaning, cleanStage>>
  BY <1>6 DEF PlaneHome
<1> USE <1>0, IdsAssumption DEF LockDiscipline, BeforeInstall, InStage2,
        flagVars, hostVars, lockVars, asmVars, planeVars
<1>7. ASSUME NEW o \in Ops, AsmClear(o) PROVE PlaneHome'
  BY <1>7 DEF AsmClear, Goto, TakeLive, PlaneHome
<1>8. ASSUME NEW o \in Ops, AsmClearFailed(o) PROVE PlaneHome'
  BY <1>8 DEF AsmClearFailed, Goto, Release, RestoreOnError, PlaneHome
<1>9. ASSUME NEW o \in Ops, AsmCleared(o) PROVE PlaneHome'
  BY <1>9 DEF AsmCleared, Goto, Release, PlaneHome
<1>10. ASSUME NEW o \in Ops, AsmStage2(o) PROVE PlaneHome'
  BY <1>10 DEF AsmStage2, Goto, PlaneHome
<1>11. ASSUME NEW o \in Ops, AsmNoNic(o) PROVE PlaneHome'
  BY <1>11 DEF AsmNoNic, Goto, Release, PlaneHome
<1>12. ASSUME NEW o \in Ops, AsmApplyFailed(o) PROVE PlaneHome'
  BY <1>12 DEF AsmApplyFailed, Goto, Release, PlaneHome
<1>13. ASSUME NEW o \in Ops, AsmApplied(o) PROVE PlaneHome'
  BY <1>13 DEF AsmApplied, UndoRoutes, Goto, PlaneHome
<1>14. ASSUME NEW o \in Ops, AsmStartPlane(o) PROVE PlaneHome'
  BY <1>14 DEF AsmStartPlane, Goto, PlaneHome
<1>15. ASSUME NEW o \in Ops, AsmStartPlaneFailed(o) PROVE PlaneHome'
  BY <1>15 DEF AsmStartPlaneFailed, UndoRoutes, Goto, PlaneHome
<1>16. ASSUME NEW o \in Ops, AsmInstall(o) PROVE PlaneHome'
  BY <1>16 DEF AsmInstall, Goto, Release, PlaneHome
<1>17. ASSUME NEW o \in Ops, AsmUndone(o) PROVE PlaneHome'
  BY <1>17 DEF AsmUndone, Goto, Release, RestoreOnError, PlaneHome
<1>18. ASSUME NEW o \in Ops, WorkerLost(o) PROVE PlaneHome'
  BY <1>18 DEF WorkerLost, PlaneHome
<1>19. ASSUME NEW o \in Ops, WorkerNotify(o) PROVE PlaneHome'
  BY <1>19, SMTT(30) DEF WorkerNotify, PlaneHome
<1>20. ASSUME NEW o \in Ops, WorkerPublish(o) PROVE PlaneHome'
  BY <1>20 DEF WorkerPublish, PlaneHome
<1>21. ASSUME NEW o \in Ops, WorkerExit(o) PROVE PlaneHome'
  BY <1>21 DEF WorkerExit, PlaneHome
<1>22. ASSUME NEW o \in Ops, SweepTake(o) PROVE PlaneHome'
  BY <1>22 DEF SweepTake, TakeLive, PlaneHome
<1>23. ASSUME NEW o \in Ops, SweepDone(o) PROVE PlaneHome'
  BY <1>23 DEF SweepDone, Release, RestoreOnError, PlaneHome
<1>24. ASSUME NEW c \in Callers, DisconnectTake(c) PROVE PlaneHome'
  BY <1>24 DEF DisconnectTake, TakeLive, PlaneHome
<1>25. ASSUME NEW c \in Callers, DisconnectFailed(c) PROVE PlaneHome'
  BY <1>25 DEF DisconnectFailed, Release, RestoreOnError, PlaneHome
<1>26. ASSUME NEW c \in Callers, DisconnectCleaned(c) PROVE PlaneHome'
  BY <1>26 DEF DisconnectCleaned, Release, PlaneHome
<1>27. CASE CleanStop
  BY <1>27 DEF CleanStop, PlaneHome
<1>28. CASE CleanJoin
  BY <1>28 DEF CleanJoin, PlaneHome
<1>29. CASE CleanRoute
  BY <1>29 DEF CleanRoute, PlaneHome
<1>. QED
  BY <1>1, <1>2, <1>3, <1>4, <1>5, <1>6, <1>7, <1>8, <1>9, <1>10, <1>11,
     <1>12, <1>13, <1>14, <1>15, <1>16, <1>17, <1>18, <1>19, <1>20, <1>21,
     <1>22, <1>23, <1>24, <1>25, <1>26, <1>27, <1>28, <1>29, ZenonT(40) DEF Next,
     ApplyStep, AsmStep, WorkerReport, SweepStep, CallStep, CleanStep,
     Quiescent

\* A signalled sweeper's workers never run again.
LEMMA SignalStep ==
    ASSUME TypeOK, Signalled, [Next]_vars PROVE Signalled'
<1>0. /\ sweeper \in [Ops -> {"none", "idle", "signalled", "cleaning", "exited"}]
      /\ worker \in [Ops -> {"none", "waiting", "running", "lost", "notified",
                             "published", "exited"}]
  BY DEF TypeOK
<1>1. ASSUME NEW o \in Ops,
             StartRefused(o) \/ RefusalReported(o)
             \/ StartAdopted(o) \/ StartAccepted(o)
             \/ AsmBegin(o) \/ AsmClear(o)
      PROVE  UNCHANGED <<worker, sweeper>>
  BY <1>1, Zenon DEF StartRefused, RefusalReported, StartAdopted,
     StartAccepted, AsmBegin, Goto, AsmClear, flagVars, hostVars, lockVars,
     asmVars, planeVars
<1>2. ASSUME NEW o \in Ops,
             AsmPoisoned(o) \/ AsmClearFailed(o)
             \/ AsmCleared(o) \/ AsmPreflight(o) \/ AsmLogin(o)
             \/ AsmStage2(o)
      PROVE  UNCHANGED <<worker, sweeper>>
  BY <1>2, Zenon DEF AsmPoisoned, Goto, AsmClearFailed, AsmCleared,
     AsmPreflight, AsmLogin, AsmStage2, flagVars, hostVars, lockVars,
     asmVars, planeVars
<1>3. ASSUME NEW o \in Ops,
             AsmReuseNic(o) \/ AsmCreateNic(o) \/ AsmNoNic(o)
             \/ AsmApplyOffer(o) \/ AsmApplyFailed(o)
             \/ AsmPanic(o)
      PROVE  UNCHANGED <<worker, sweeper>>
  BY <1>3, Zenon DEF AsmReuseNic, Goto, AsmCreateNic, AsmNoNic,
     AsmApplyOffer, AsmApplyFailed, AsmPanic, flagVars, hostVars, lockVars,
     asmVars, planeVars
<1>4. ASSUME NEW o \in Ops,
             AsmApplied(o) \/ AsmStartPlaneFailed(o)
             \/ AsmUndone(o) \/ AsmFailed(o) \/ AsmReset(o)
      PROVE  UNCHANGED <<worker, sweeper>>
  BY <1>4, Zenon DEF AsmApplied, UndoRoutes, Goto, AsmStartPlaneFailed,
     AsmUndone, AsmFailed, AsmReset, flagVars, hostVars, lockVars, asmVars,
     planeVars
<1>5. ASSUME NEW c \in Callers,
             Cancel(c) \/ DisconnectBegin(c)
             \/ DisconnectTake(c) \/ DisconnectPoisoned(c)
             \/ DisconnectFailed(c) \/ DisconnectCleaned(c)
             \/ CloseNic(c) \/ PublishIdle(c)
      PROVE  UNCHANGED <<worker, sweeper>>
  BY <1>5, Zenon DEF Cancel, DisconnectBegin, DisconnectTake,
     DisconnectPoisoned, DisconnectFailed, DisconnectCleaned, CloseNic,
     PublishIdle, flagVars, hostVars, lockVars, asmVars, planeVars
<1>6. ASSUME CleanStop \/ CleanJoin \/ CleanRoute
      PROVE  UNCHANGED <<worker, sweeper>>
  BY <1>6, Zenon DEF CleanStop, CleanJoin, CleanRoute, flagVars, hostVars,
     lockVars, asmVars, planeVars
<1>7. ASSUME UNCHANGED vars PROVE UNCHANGED <<worker, sweeper>>
  BY <1>7 DEF vars
<1>8. CASE UNCHANGED <<worker, sweeper>>
  BY <1>8 DEF Signalled
<1> USE <1>0 DEF flagVars, hostVars, lockVars, asmVars, planeVars
<1>9. ASSUME NEW o \in Ops, AsmStartPlane(o) PROVE Signalled'
  BY <1>9 DEF AsmStartPlane, Goto, Signalled
<1>10. ASSUME NEW o \in Ops, AsmInstall(o) PROVE Signalled'
  BY <1>10 DEF AsmInstall, Goto, CanInstall, Alive, Signalled
<1>11. ASSUME NEW o \in Ops, WorkerLost(o) PROVE Signalled'
  BY <1>11 DEF WorkerLost, Signalled
<1>12. ASSUME NEW o \in Ops, WorkerNotify(o) PROVE Signalled'
  BY <1>12 DEF WorkerNotify, Signalled
<1>13. ASSUME NEW o \in Ops, WorkerPublish(o) PROVE Signalled'
  BY <1>13 DEF WorkerPublish, Signalled
<1>14. ASSUME NEW o \in Ops, WorkerExit(o) PROVE Signalled'
  BY <1>14 DEF WorkerExit, Signalled
<1>15. ASSUME NEW o \in Ops, SweepTake(o) PROVE Signalled'
  BY <1>15 DEF SweepTake, Signalled
<1>16. ASSUME NEW o \in Ops, SweepNothing(o) PROVE Signalled'
  BY <1>16 DEF SweepNothing, Signalled
<1>17. ASSUME NEW o \in Ops, SweepDone(o) PROVE Signalled'
  BY <1>17 DEF SweepDone, Signalled
<1>18. ASSUME NEW o \in Ops, SweepExit(o) PROVE Signalled'
  BY <1>18 DEF SweepExit, Signalled
<1>. QED
  BY <1>1, <1>2, <1>3, <1>4, <1>5, <1>6, <1>7, <1>8, <1>9, <1>10, <1>11,
     <1>12, <1>13, <1>14, <1>15, <1>16, <1>17, <1>18, ZenonT(40) DEF Next,
     ApplyStep, AsmStep, WorkerReport, SweepStep, CallStep, CleanStep,
     Quiescent

\* An assembly neither starts nor ends, and its outcome is not published.
SameAssembly ==
    \A o \in Ops : /\ Running(o)' <=> Running(o)
                   /\ asm'[o] = "reset" <=> asm[o] = "reset"

\* No data plane comes up, is taken down, reports or changes its operation.
SamePlanes ==
    \A p \in Ops : /\ PlaneState(p)' = PlaneState(p)
                   /\ PlaneState(p) # "none" => bound'[p] = bound[p]

\* A step that the contract does not see.
Hidden == SameAssembly /\ SamePlanes /\ UNCHANGED <<cancelFlag, latest>>

\* All other steps are hidden: restoring a tunnel restores no data plane, and a
\* sweeper takes only one that was lost.
LEMMA HiddenSteps ==
    ASSUME RefInv, [Next]_vars
    PROVE  \/ Hidden
           \/ \E o \in Ops :
                 \/ RefusalReported(o) \/ StartAdopted(o) \/ StartAccepted(o)
                 \/ AsmClear(o) \/ AsmPreflight(o) \/ AsmLogin(o)
                 \/ AsmStage2(o) \/ AsmApplied(o) \/ AsmInstall(o)
                 \/ AsmFailed(o) \/ AsmReset(o)
                 \/ WorkerLost(o) \/ WorkerPublish(o)
           \/ \E c \in Callers : \/ Cancel(c) \/ DisconnectBegin(c)
                                 \/ DisconnectTake(c) \/ PublishIdle(c)
           \/ CleanStop
<1>0. /\ LockDiscipline /\ Generations /\ PlaneHome /\ Signalled
      /\ asm \in [Ops -> AsmPcs]
      /\ live \in Ops \cup {None} /\ liveFull \in BOOLEAN
      /\ cleaning \in Ops \cup {None}
      /\ generation \in Nat /\ planeGen \in [Ops -> Nat]
      /\ stop \in [Ops -> BOOLEAN]
      /\ bound \in [Ops -> Ops \cup {None}]
      /\ worker \in [Ops -> {"none", "waiting", "running", "lost", "notified",
                             "published", "exited"}]
  BY DEF RefInv, Inv, TypeOK
<1>1. ASSUME UNCHANGED asm PROVE SameAssembly
  BY <1>1 DEF SameAssembly, Running
<1>2. ASSUME UNCHANGED <<worker, stop, live, liveFull, bound>> PROVE SamePlanes
  BY <1>2 DEF SamePlanes, PlaneState
<1> USE DEF flagVars, hostVars, lockVars, asmVars, planeVars
<1>3. ASSUME NEW o \in Ops, SweepNothing(o) \/ SweepExit(o) PROVE Hidden
  BY <1>3, <1>1, <1>2, Zenon DEF SweepNothing, SweepExit, Hidden
<1>4. ASSUME NEW c \in Callers,
             DisconnectPoisoned(c) \/ DisconnectCleaned(c)
             \/ CloseNic(c)
      PROVE  Hidden
  BY <1>4, <1>1, <1>2, Zenon DEF DisconnectPoisoned, DisconnectCleaned,
     CloseNic, Hidden
<1>5. CASE CleanJoin \/ CleanRoute
  BY <1>5, <1>1, <1>2, Zenon DEF CleanJoin, CleanRoute, Hidden
<1>6. CASE UNCHANGED vars
  BY <1>6, <1>1, <1>2, Zenon DEF vars, Hidden
<1>7. ASSUME NEW o \in Ops, StartRefused(o) PROVE Hidden
  <2>1. SameAssembly
    BY <1>0, <1>7 DEF StartRefused, SameAssembly, Running
  <2>. QED
    BY <2>1, <1>2, <1>7, Zenon DEF StartRefused, Hidden
<1>8. ASSUME NEW o \in Ops, AsmBegin(o) PROVE Hidden
  <2>1. SameAssembly
    BY <1>0, <1>8 DEF AsmBegin, Goto, SameAssembly, Running
  <2>. QED
    BY <2>1, <1>2, <1>8, Zenon DEF AsmBegin, Goto, Hidden
<1>9. ASSUME NEW o \in Ops, AsmPoisoned(o) PROVE Hidden
  <2>1. SameAssembly
    BY <1>0, <1>9 DEF AsmPoisoned, Goto, SameAssembly, Running
  <2>. QED
    BY <2>1, <1>2, <1>9, Zenon DEF AsmPoisoned, Goto, Hidden
<1>10. ASSUME NEW o \in Ops, AsmCleared(o) PROVE Hidden
  <2>1. SameAssembly
    BY <1>0, <1>10 DEF AsmCleared, Goto, SameAssembly, Running
  <2>. QED
    BY <2>1, <1>2, <1>10, Zenon DEF AsmCleared, Goto, Hidden
<1>11. ASSUME NEW o \in Ops, AsmReuseNic(o) PROVE Hidden
  <2>1. SameAssembly
    BY <1>0, <1>11 DEF AsmReuseNic, Goto, SameAssembly, Running
  <2>. QED
    BY <2>1, <1>2, <1>11, Zenon DEF AsmReuseNic, Goto, Hidden
<1>12. ASSUME NEW o \in Ops, AsmCreateNic(o) PROVE Hidden
  <2>1. SameAssembly
    BY <1>0, <1>12 DEF AsmCreateNic, Goto, SameAssembly, Running
  <2>. QED
    BY <2>1, <1>2, <1>12, Zenon DEF AsmCreateNic, Goto, Hidden
<1>13. ASSUME NEW o \in Ops, AsmNoNic(o) PROVE Hidden
  <2>1. SameAssembly
    BY <1>0, <1>13 DEF AsmNoNic, Goto, SameAssembly, Running
  <2>. QED
    BY <2>1, <1>2, <1>13, Zenon DEF AsmNoNic, Goto, Hidden
<1>14. ASSUME NEW o \in Ops, AsmApplyOffer(o) PROVE Hidden
  <2>1. SameAssembly
    BY <1>0, <1>14 DEF AsmApplyOffer, Goto, SameAssembly, Running
  <2>. QED
    BY <2>1, <1>2, <1>14, Zenon DEF AsmApplyOffer, Goto, Hidden
<1>15. ASSUME NEW o \in Ops, AsmApplyFailed(o) PROVE Hidden
  <2>1. SameAssembly
    BY <1>0, <1>15 DEF AsmApplyFailed, Goto, SameAssembly, Running
  <2>. QED
    BY <2>1, <1>2, <1>15, Zenon DEF AsmApplyFailed, Goto, Hidden
<1>16. ASSUME NEW o \in Ops, AsmPanic(o) PROVE Hidden
  <2>1. SameAssembly
    BY <1>0, <1>16 DEF AsmPanic, Goto, SameAssembly, Running
  <2>. QED
    BY <2>1, <1>2, <1>16, Zenon DEF AsmPanic, Goto, Hidden
<1>17. ASSUME NEW o \in Ops, AsmStartPlaneFailed(o) PROVE Hidden
  <2>1. SameAssembly
    BY <1>0, <1>17 DEF AsmStartPlaneFailed, UndoRoutes, Goto, SameAssembly,
       Running
  <2>. QED
    BY <2>1, <1>2, <1>17, Zenon DEF AsmStartPlaneFailed, UndoRoutes, Goto,
       Hidden
<1> USE <1>0, IdsAssumption DEF LockDiscipline, BeforeInstall, InStage2,
        Generations, PlaneHome, Signalled
<1>18. ASSUME NEW o \in Ops, AsmClearFailed(o) PROVE Hidden
  <2>1. SameAssembly
    BY <1>18 DEF AsmClearFailed, Goto, SameAssembly, Running
  <2>2. SamePlanes
    BY <1>18 DEF AsmClearFailed, Goto, RestoreOnError, SamePlanes, PlaneState
  <2>. QED
    BY <2>1, <2>2, <1>18 DEF AsmClearFailed, Goto, Hidden
<1>19. ASSUME NEW o \in Ops, AsmStartPlane(o) PROVE Hidden
  <2>1. SameAssembly
    BY <1>19 DEF AsmStartPlane, Goto, SameAssembly, Running
  <2>2. SamePlanes
    BY <1>19, SMTT(30) DEF AsmStartPlane, Goto, SamePlanes, PlaneState
  <2>. QED
    BY <2>1, <2>2, <1>19, SMTT(30) DEF AsmStartPlane, Goto, Hidden
<1>20. ASSUME NEW o \in Ops, AsmUndone(o) PROVE Hidden
  <2>1. SameAssembly
    BY <1>20, SMTT(30) DEF AsmUndone, Goto, SameAssembly, Running
  <2>2. SamePlanes
    BY <1>20 DEF AsmUndone, Goto, RestoreOnError, SamePlanes, PlaneState
  <2>. QED
    BY <2>1, <2>2, <1>20, SMTT(30) DEF AsmUndone, Goto, Hidden
<1>21. ASSUME NEW o \in Ops, WorkerNotify(o) PROVE Hidden
  <2>1. SamePlanes
    BY <1>21 DEF WorkerNotify, SamePlanes, PlaneState
  <2>. QED
    BY <2>1, <1>1, <1>21, SMTT(30) DEF WorkerNotify, Hidden
<1>22. ASSUME NEW o \in Ops, WorkerExit(o) PROVE Hidden
  <2>1. SamePlanes
    BY <1>22 DEF WorkerExit, SamePlanes, PlaneState
  <2>. QED
    BY <2>1, <1>1, <1>22, SMTT(30) DEF WorkerExit, Hidden
<1>23. ASSUME NEW o \in Ops, SweepTake(o) PROVE Hidden
  <2>1. SamePlanes
    BY <1>23 DEF SweepTake, TakeLive, SignalCurrent, SamePlanes, PlaneState
  <2>. QED
    BY <2>1, <1>1, <1>23, SMTT(30) DEF SweepTake, Hidden
<1>24. ASSUME NEW o \in Ops, SweepDone(o) PROVE Hidden
  <2>1. SamePlanes
    BY <1>24 DEF SweepDone, RestoreOnError, SamePlanes, PlaneState
  <2>. QED
    BY <2>1, <1>1, <1>24 DEF SweepDone, Hidden
<1>25. ASSUME NEW c \in Callers, DisconnectFailed(c) PROVE Hidden
  <2>1. SamePlanes
    BY <1>25 DEF DisconnectFailed, RestoreOnError, SamePlanes, PlaneState
  <2>. QED
    BY <2>1, <1>1, <1>25, SMTT(30) DEF DisconnectFailed, Hidden
<1>. QED
  BY <1>3, <1>4, <1>5, <1>6, <1>7, <1>8, <1>9, <1>10, <1>11, <1>12, <1>13,
     <1>14, <1>15, <1>16, <1>17, <1>18, <1>19, <1>20, <1>21, <1>22, <1>23,
     <1>24, <1>25, ZenonT(40) DEF Next, ApplyStep, AsmStep, WorkerReport,
     SweepStep, CallStep, CleanStep, Quiescent

\* A set with one element offers no choice.
LEMMA ChosenOne ==
    ASSUME NEW S, NEW x \in S, \A y \in S : y = x
    PROVE  (CHOOSE y \in S : TRUE) = x
  BY Zenon

\* The assembly that runs is the one the contract names.
LEMMA RunningIs ==
    ASSUME SingleAssembly, NEW o \in Ops, Running(o)
    PROVE  Assembling = o /\ (Settled <=> asm[o] = "reset")
<1>1. Assembling = CHOOSE q \in Ops : Running(q)
  BY DEF Assembling
<1>2. (CHOOSE q \in Ops : Running(q)) \in Ops
      /\ Running(CHOOSE q \in Ops : Running(q))
  BY Zenon
<1>3. Assembling = o
  BY <1>1, <1>2, Zenon DEF SingleAssembly
<1>. QED
  BY <1>3, Zenon DEF SingleAssembly, Running, Settled

\* The same after a step.
LEMMA RunningWillBe ==
    ASSUME SingleAssembly', NEW o \in Ops, Running(o)'
    PROVE  Assembling' = o /\ (Settled' <=> asm'[o] = "reset")
<1>1. Assembling' = CHOOSE q \in Ops : Running(q)'
  BY DEF Assembling
<1>2. (CHOOSE q \in Ops : Running(q)') \in Ops
      /\ asm'[CHOOSE q \in Ops : Running(q)'] \notin {"none", "refused", "done"}
  BY Zenon DEF Running
<1>3. Assembling' = o
  BY <1>1, <1>2, Zenon DEF SingleAssembly, Running
<1>. QED
  BY <1>3, Zenon DEF SingleAssembly, Running, Settled

\* No assembly runs.
LEMMA NoneRuns ==
    ASSUME \A o \in Ops : ~Running(o) PROVE Assembling = None /\ ~Settled
  BY DEF Assembling, Settled, Running

\* The same after a step.
LEMMA NoneWillRun ==
    ASSUME \A o \in Ops : ~Running(o)' PROVE Assembling' = None /\ ~Settled'
  BY DEF Assembling, Settled, Running

\* The contract sees the same assembly as long as none starts, settles or ends.
LEMMA AssemblyFrame ==
    ASSUME SingleAssembly, SingleAssembly', SameAssembly
    PROVE  Assembling' = Assembling /\ (Settled' <=> Settled)
<1>1. CASE \E o \in Ops : Running(o)
  <2>1. PICK o \in Ops : Running(o)
    BY <1>1
  <2>2. Running(o)' /\ (asm'[o] = "reset" <=> asm[o] = "reset")
    BY <2>1 DEF SameAssembly
  <2>3. Assembling = o /\ (Settled <=> asm[o] = "reset")
    BY <2>1, RunningIs
  <2>4. Assembling' = o /\ (Settled' <=> asm'[o] = "reset")
    BY <2>2, RunningWillBe
  <2>. QED
    BY <2>2, <2>3, <2>4
<1>2. CASE \A o \in Ops : ~Running(o)
  <2>1. \A o \in Ops : ~Running(o)'
    BY <1>2 DEF SameAssembly
  <2>2. Assembling = None /\ ~Settled
    BY <1>2, NoneRuns
  <2>3. Assembling' = None /\ ~Settled'
    BY <2>1, NoneWillRun, SMTT(30)
  <2>. QED
    BY <2>2, <2>3
<1>. QED
  BY <1>1, <1>2

\* A data plane that may still report is the only one.
LEMMA OnePlane ==
    ASSUME LockDiscipline, PlaneHome, NEW p \in Ops, PlaneState(p) # "none"
    PROVE  /\ \A q \in Ops : PlaneState(q) # "none" => q = p
           /\ CurrentPlane = [op |-> bound[p], state |-> PlaneState(p)]
<1>1. \A q \in Ops : PlaneState(q) # "none"
                        => worker[q] \in {"running", "lost", "notified"}
  BY SMTT(30) DEF PlaneState
<1>2. \A q \in Ops : PlaneState(q) # "none"
          => \/ live = q /\ cleanStage = "none"
             \/ cleaning = q /\ cleanStage # "none" /\ live = None
  BY <1>1, IdsAssumption DEF PlaneHome, LockDiscipline
<1>3. \A q \in Ops : PlaneState(q) # "none" => q = p
  BY <1>2, Zenon
<1>4. p \in Planes /\ \A q \in Planes : q = p
  BY <1>3 DEF Planes
<1>5. (CHOOSE q \in Planes : TRUE) = p
  BY <1>4, ChosenOne, SMTT(30)
<1>. QED
  BY <1>3, <1>4, <1>5, SMTT(30) DEF CurrentPlane

\* The same after a step.
LEMMA OnePlaneNext ==
    ASSUME LockDiscipline', PlaneHome', NEW p \in Ops, PlaneState(p)' # "none"
    PROVE  /\ \A q \in Ops : PlaneState(q)' # "none" => q = p
           /\ CurrentPlane' = [op |-> bound'[p], state |-> PlaneState(p)']
<1>1. \A q \in Ops : PlaneState(q)' # "none"
                        => worker'[q] \in {"running", "lost", "notified"}
  BY DEF PlaneState
<1>2. \A q \in Ops : PlaneState(q)' # "none"
          => \/ live' = q /\ cleanStage' = "none"
             \/ cleaning' = q /\ cleanStage' # "none" /\ live' = None
  BY <1>1, IdsAssumption DEF PlaneHome, LockDiscipline
<1>3. \A q \in Ops : PlaneState(q)' # "none" => q = p
  BY <1>2, Zenon
<1>4. p \in Planes' /\ \A q \in Planes' : q = p
  BY <1>3 DEF Planes
<1>5. (CHOOSE q \in Planes' : TRUE) = p
  BY <1>4, ChosenOne, SMTT(30)
<1>. QED
  BY <1>3, <1>4, <1>5 DEF CurrentPlane

\* No data plane is left that could report.
LEMMA NoPlaneLeft ==
    ASSUME \A p \in Ops : PlaneState(p) = "none"
    PROVE  CurrentPlane = [op |-> None, state |-> "none"]
  BY DEF CurrentPlane, Planes

\* The same after a step.
LEMMA NoPlaneNext ==
    ASSUME \A p \in Ops : PlaneState(p)' = "none"
    PROVE  CurrentPlane' = [op |-> None, state |-> "none"]
  BY DEF CurrentPlane, Planes

\* The contract sees the same data plane as long as no group of workers changes.
LEMMA PlaneFrame ==
    ASSUME LockDiscipline, PlaneHome, LockDiscipline', PlaneHome', SamePlanes
    PROVE  CurrentPlane' = CurrentPlane
<1>1. CASE \E p \in Ops : PlaneState(p) # "none"
  <2>1. PICK p \in Ops : PlaneState(p) # "none"
    BY <1>1
  <2>2. PlaneState(p)' = PlaneState(p) /\ bound'[p] = bound[p]
    BY <2>1 DEF SamePlanes
  <2>3. CurrentPlane = [op |-> bound[p], state |-> PlaneState(p)]
    BY <2>1, OnePlane
  <2>4. CurrentPlane' = [op |-> bound'[p], state |-> PlaneState(p)']
    BY <2>1, <2>2, OnePlaneNext
  <2>. QED
    BY <2>2, <2>3, <2>4
<1>2. CASE \A p \in Ops : PlaneState(p) = "none"
  <2>1. \A p \in Ops : PlaneState(p)' = "none"
    BY <1>2 DEF SamePlanes
  <2>. QED
    BY <1>2, <2>1, NoPlaneLeft, NoPlaneNext
<1>. QED
  BY <1>1, <1>2

-----------------------------------------------------------------------------
(* The steps of the contract.                                              *)

\* One step of the contract, or none.
ContractStep ==
    [Contract!RuntimeStep \/ Contract!CallerStep]_(Contract!contractVars)

\* What a step leaves alone when it moves neither assembly nor plane.
LEMMA Frames ==
    ASSUME RefInv, RefInv'
    PROVE  /\ SameAssembly => Assembling' = Assembling /\ Settled' = Settled
           /\ SamePlanes => CurrentPlane' = CurrentPlane
<1>1. SameAssembly => Assembling' = Assembling /\ (Settled' <=> Settled)
  BY AssemblyFrame DEF RefInv, Inv
<1>2. (Settled' <=> Settled) => Settled' = Settled
  BY DEF Settled
<1>3. SamePlanes => CurrentPlane' = CurrentPlane
  BY PlaneFrame DEF RefInv, Inv
<1>. QED
  BY <1>1, <1>2, <1>3

\* The contract does not see a hidden step.
LEMMA HiddenIsStutter ==
    ASSUME RefInv, RefInv', Hidden PROVE ContractStep
<1>1. UNCHANGED Contract!contractVars
  BY Frames DEF Hidden, Contract!contractVars
<1>. QED
  BY <1>1 DEF ContractStep

\* The runtime and the contract publish alike.
LEMMA SamePublish ==
    /\ \A o, p : Contract!Event(o, p) = Event(o, p)
    /\ \A o, p : Publish(Event(o, p)) => Contract!Publish(Event(o, p))
  BY DEF Publish, Suppressed, Event, Contract!Publish, Contract!Event

\* take on live is the contract's TakeDown.
LEMMA TakenDown ==
    ASSUME RefInv, RefInv', TakeLive, UNCHANGED <<worker, stop, bound>>
    PROVE  Contract!TakeDown
<1>0. /\ live \in Ops \cup {None} /\ LockDiscipline /\ PlaneHome
      /\ LockDiscipline' /\ PlaneHome'
  BY DEF RefInv, Inv, TypeOK
<1>1. CASE \E p \in Ops : PlaneState(p) = "up"
  <2>1. PICK p \in Ops : PlaneState(p) = "up"
    BY <1>1, SMTT(30)
  <2>2. PlaneState(p)' = "closing" /\ bound'[p] = bound[p]
    BY <2>1, IdsAssumption DEF PlaneState, TakeLive
  <2>3. CurrentPlane = [op |-> bound[p], state |-> "up"]
    BY <2>1, <1>0, OnePlane
  <2>4. CurrentPlane' = [op |-> bound[p], state |-> "closing"]
    BY <2>2, <1>0, OnePlaneNext
  <2>. QED
    BY <2>3, <2>4 DEF Contract!TakeDown
<1>2. CASE \A p \in Ops : PlaneState(p) # "up"
  <2>1. SamePlanes
    BY <1>0, <1>2, IdsAssumption DEF SamePlanes, PlaneState, TakeLive
  <2>2. CurrentPlane' = CurrentPlane
    BY <2>1, Frames
  <2>3. CurrentPlane.state # "up"
    <3>1. CASE \E p \in Ops : PlaneState(p) # "none"
      <4>1. PICK p \in Ops : PlaneState(p) # "none"
        BY <3>1
      <4>2. CurrentPlane = [op |-> bound[p], state |-> PlaneState(p)]
        BY <4>1, <1>0, OnePlane
      <4>. QED
        BY <4>1, <4>2, <1>2
    <3>2. CASE \A p \in Ops : PlaneState(p) = "none"
      BY <3>2, NoPlaneLeft
    <3>. QED
      BY <3>1, <3>2
  <2>. QED
    BY <2>2, <2>3, SMTT(30) DEF Contract!TakeDown
<1>. QED
  BY <1>1, <1>2, SMTT(30)

\* Progress of the assembly of o.
LEMMA ProgressStep ==
    ASSUME RefInv, RefInv', NEW o \in Ops, Running(o), asm[o] # "reset",
           SameAssembly, SamePlanes, UNCHANGED cancelFlag,
           Publish(Event(o, "Connecting"))
    PROVE  ContractStep
<1>1. Assembling = o /\ ~Settled
  BY RunningIs DEF RefInv, Inv
<1>2. UNCHANGED <<Assembling, Settled, cancelFlag, CurrentPlane>>
  BY Frames
<1>3. Contract!Publish(Contract!Event(Assembling, "Connecting"))
  BY <1>1, SamePublish, Zenon
<1>4. o # None
  BY IdsAssumption
<1>5. Contract!Progress
  BY <1>1, <1>2, <1>3, <1>4 DEF Contract!Progress
<1>. QED
  BY <1>5 DEF ContractStep, Contract!RuntimeStep

\* Requests and stops.
LEMMA CallerRefines ==
    ASSUME RefInv, RefInv'
    PROVE  /\ \A o \in Ops : RefusalReported(o) \/ StartAdopted(o)
                                \/ StartAccepted(o) => ContractStep
           /\ \A c \in Callers : Cancel(c) \/ DisconnectBegin(c)
                                    \/ DisconnectTake(c) \/ PublishIdle(c)
                                 => ContractStep
<1>0. /\ asm \in [Ops -> AsmPcs] /\ live \in Ops \cup {None}
      /\ bound \in [Ops -> Ops \cup {None}]
      /\ SingleAssembly /\ SingleAssembly' /\ LockDiscipline /\ PlaneHome
      /\ LockDiscipline' /\ PlaneHome'
  BY DEF RefInv, Inv, TypeOK
<1> USE DEF flagVars, hostVars, lockVars, asmVars, planeVars
<1>1. ASSUME UNCHANGED <<worker, stop, live, liveFull, bound>>
      PROVE  CurrentPlane' = CurrentPlane
  <2>1. SamePlanes
    BY <1>1 DEF SamePlanes, PlaneState
  <2>. QED
    BY <2>1, Frames, SMTT(30)
<1>2. ASSUME UNCHANGED asm
      PROVE  UNCHANGED <<Assembling, Settled>>
  <2>1. SameAssembly
    BY <1>2 DEF SameAssembly, Running
  <2>. QED
    BY <2>1, Frames
<1>3. ASSUME NEW o \in Ops, RefusalReported(o) PROVE ContractStep
  <2>1. SameAssembly
    BY <1>0, <1>3 DEF RefusalReported, SameAssembly, Running
  <2>2. UNCHANGED <<Assembling, Settled, cancelFlag, CurrentPlane>>
    BY <2>1, <1>1, <1>3, Frames DEF RefusalReported
  <2>3. Contract!Publish(Contract!Event(o, "Failed"))
    BY <1>3, SamePublish, Zenon DEF RefusalReported
  <2>4. Contract!PublishRefusal(o)
    BY <2>2, <2>3 DEF Contract!PublishRefusal
  <2>. QED
    BY <2>4 DEF ContractStep, Contract!CallerStep
<1>4. ASSUME NEW o \in Ops, StartAdopted(o) PROVE ContractStep
  <2>1. SameAssembly
    BY <1>0, <1>4 DEF StartAdopted, SameAssembly, Running
  <2>2. UNCHANGED <<Assembling, Settled, cancelFlag>>
    BY <2>1, <1>4, Frames DEF StartAdopted
  <2>3. Assembling = None
    BY <1>0, <1>4, NoneRuns, SMTT(30) DEF StartAdopted, SingleAssembly
  <2>4. live \in Ops /\ PlaneState(live) = "up"
    BY <1>0, <1>4, Zenon DEF StartAdopted, CanAdopt, IsConnected, Alive, PlaneHome,
       PlaneState
  <2>5. PICK p \in Ops : p = live
    BY <2>4, SMTT(30)
  <2>6. PlaneState(p) = "up" /\ PlaneState(p)' = "up" /\ bound'[p] = o
    BY <2>4, <2>5, <1>0, <1>4, ZenonT(40) DEF StartAdopted, PlaneState
  <2>7. CurrentPlane = [op |-> bound[p], state |-> "up"]
    BY <2>6, <1>0, OnePlane, SMTT(30)
  <2>8. CurrentPlane' = [op |-> o, state |-> "up"]
    BY <2>6, <1>0, OnePlaneNext
  <2>9. Contract!Publish(Contract!Event(o, "Connected"))
    BY <1>4, SamePublish, Zenon DEF StartAdopted
  <2>10. Contract!Adopt(o)
    BY <2>2, <2>3, <2>7, <2>8, <2>9 DEF Contract!Adopt
  <2>. QED
    BY <2>10 DEF ContractStep, Contract!CallerStep
<1>5. ASSUME NEW o \in Ops, StartAccepted(o) PROVE ContractStep
  <2>1. Assembling = None /\ ~Settled
    BY <1>0, <1>5, NoneRuns DEF StartAccepted, SingleAssembly
  <2>2. Running(o)' /\ asm'[o] # "reset"
    BY <1>0, <1>5 DEF StartAccepted, Running
  <2>3. Assembling' = o /\ ~Settled'
    BY <2>2, <1>0, RunningWillBe
  <2>4. Settled' = Settled
    BY <2>1, <2>3 DEF Settled
  <2>5. cancelFlag' = FALSE /\ UNCHANGED <<CurrentPlane, latest>>
    BY <1>1, <1>5 DEF StartAccepted
  <2>6. Contract!Accept(o)
    BY <2>1, <2>3, <2>4, <2>5 DEF Contract!Accept
  <2>. QED
    BY <2>6 DEF ContractStep, Contract!CallerStep
<1>6. ASSUME NEW c \in Callers, Cancel(c) \/ DisconnectBegin(c)
      PROVE  ContractStep
  <2>1. cancelFlag' = TRUE
        /\ UNCHANGED <<Assembling, Settled, CurrentPlane, latest>>
    BY <1>1, <1>2, <1>6, Zenon DEF Cancel, DisconnectBegin
  <2>2. Contract!CancelToken
    BY <2>1 DEF Contract!CancelToken
  <2>. QED
    BY <2>2 DEF ContractStep, Contract!CallerStep
<1>7. ASSUME NEW c \in Callers, DisconnectTake(c) PROVE ContractStep
  <2>1. cancelFlag' = TRUE /\ UNCHANGED <<Assembling, Settled, latest>>
    BY <1>2, <1>7, Zenon DEF DisconnectTake
  <2>2. Contract!TakeDown
    BY <1>7, TakenDown, Zenon DEF DisconnectTake
  <2>3. Contract!Disconnect
    BY <2>1, <2>2 DEF Contract!Disconnect
  <2>. QED
    BY <2>3 DEF ContractStep, Contract!CallerStep
<1>8. ASSUME NEW c \in Callers, PublishIdle(c) PROVE ContractStep
  <2>1. PICK s \in Stoppers \cup {None} :
            s = IF c \in Stoppers THEN c ELSE None
    OBVIOUS
  <2>2. Contract!Publish(Contract!Event(s, "Idle"))
    BY <1>8, <2>1, SamePublish, Zenon DEF PublishIdle
  <2>3. UNCHANGED <<Assembling, Settled, cancelFlag, CurrentPlane>>
    BY <1>1, <1>2, <1>8, Zenon DEF PublishIdle
  <2>4. Contract!PublishStop(s)
    BY <2>2, <2>3 DEF Contract!PublishStop
  <2>. QED
    BY <2>4 DEF ContractStep, Contract!CallerStep
<1>. QED
  BY <1>3, <1>4, <1>5, <1>6, <1>7, <1>8, ZenonT(40)

\* The assembly.
LEMMA AssemblyRefines ==
    ASSUME RefInv, RefInv', NEW o \in Ops,
           \/ AsmClear(o) \/ AsmPreflight(o) \/ AsmLogin(o) \/ AsmStage2(o)
           \/ AsmApplied(o) \/ AsmInstall(o) \/ AsmFailed(o) \/ AsmReset(o)
    PROVE  ContractStep
<1>0. /\ asm \in [Ops -> AsmPcs] /\ live \in Ops \cup {None}
      /\ stop \in [Ops -> BOOLEAN] /\ o # None
      /\ worker \in [Ops -> {"none", "waiting", "running", "lost", "notified",
                             "published", "exited"}]
      /\ SingleAssembly /\ SingleAssembly' /\ LockDiscipline /\ PlaneHome
      /\ LockDiscipline' /\ PlaneHome' /\ Generations
  <2>1. TypeOK /\ o # None
    BY IdsAssumption, Zenon DEF RefInv, Inv
  <2>2. /\ SingleAssembly /\ SingleAssembly' /\ LockDiscipline /\ PlaneHome
        /\ LockDiscipline' /\ PlaneHome' /\ Generations
    BY ZenonT(40) DEF RefInv, Inv
  <2>. QED
    BY <2>1, <2>2, Zenon DEF TypeOK
<1> USE DEF flagVars, hostVars, lockVars, asmVars, planeVars
<1>1. ASSUME UNCHANGED <<worker, stop, live, liveFull, bound>> PROVE SamePlanes
  BY <1>1 DEF SamePlanes, PlaneState
<1>2. ASSUME asm[o] \notin {"none", "refused", "reset", "done"}
      PROVE  Running(o) /\ Assembling = o /\ Settled = FALSE
  <2>1. Running(o)
    BY <1>2 DEF Running
  <2>2. Assembling = o /\ ~Settled
    BY <2>1, <1>0, <1>2, RunningIs
  <2>. QED
    BY <2>1, <2>2 DEF Settled
<1>3. CASE AsmClear(o)
  <2>1. SameAssembly
    BY <1>0, <1>3 DEF AsmClear, Goto, SameAssembly, Running
  <2>2. UNCHANGED <<Assembling, Settled, cancelFlag, latest>>
    BY <2>1, <1>3, Frames DEF AsmClear
  <2>3. Contract!TakeDown
    BY <1>3, TakenDown, ZenonT(40) DEF AsmClear
  <2>4. Assembling = o /\ ~Settled
    BY <1>2, <1>3 DEF AsmClear
  <2>5. Contract!Replace
    BY <2>2, <2>3, <2>4, <1>0 DEF Contract!Replace
  <2>. QED
    BY <2>5, SMTT(30) DEF ContractStep, Contract!RuntimeStep
<1>4. CASE AsmPreflight(o)
  <2>1. SameAssembly
    BY <1>0, <1>4 DEF AsmPreflight, Goto, SameAssembly, Running
  <2>2. SamePlanes /\ UNCHANGED cancelFlag
    BY <1>1, <1>4, Zenon DEF AsmPreflight
  <2>3. CASE nic
    <3>1. Hidden
      BY <2>1, <2>2, <2>3, <1>4 DEF AsmPreflight, Hidden
    <3>. QED
      BY <3>1, HiddenIsStutter, SMTT(30)
  <2>4. CASE ~nic
    <3>1. asm[o] = "preflight" /\ Publish(Event(o, "Connecting"))
      BY <2>4, <1>4 DEF AsmPreflight
    <3>. QED
      BY <3>1, <2>1, <2>2, <1>2, ProgressStep, SMTT(30)
  <2>. QED
    BY <2>3, <2>4, SMTT(30)
<1>5. CASE AsmLogin(o)
  <2>1. SameAssembly
    BY <1>0, <1>5 DEF AsmLogin, Goto, SameAssembly, Running
  <2>2. SamePlanes /\ UNCHANGED cancelFlag
    BY <1>1, <1>5, ZenonT(40) DEF AsmLogin
  <2>3. asm[o] = "login" /\ Publish(Event(o, "Connecting"))
    BY <1>5, SMTT(30) DEF AsmLogin
  <2>. QED
    BY <2>1, <2>2, <2>3, <1>2, ProgressStep, SMTT(30)
<1>6. CASE AsmStage2(o)
  <2>1. SameAssembly
    BY <1>0, <1>6, SMTT(30) DEF AsmStage2, Goto, SameAssembly, Running
  <2>2. live = None
    BY <1>0, <1>6, ZenonT(40) DEF AsmStage2, LockDiscipline, BeforeInstall
  <2>3. UNCHANGED <<worker, stop, bound, live, cancelFlag>> /\ asm[o] = "stage2"
    BY <2>2, <1>6, SMTT(30) DEF AsmStage2
  <2>4. SamePlanes
    BY <2>2, <2>3, IdsAssumption, ZenonT(40) DEF SamePlanes, PlaneState
  <2>5. CASE cancelFlag
    <3>1. Hidden
      BY <2>1, <2>3, <2>4, <2>5, <1>6 DEF AsmStage2, Hidden
    <3>. QED
      BY <3>1, HiddenIsStutter
  <2>6. CASE ~cancelFlag
    <3>1. Publish(Event(o, "Connecting"))
      BY <2>6, <1>6, SMTT(30) DEF AsmStage2
    <3>. QED
      BY <3>1, <2>1, <2>3, <2>4, <1>2, ProgressStep, SMTT(30)
  <2>. QED
    BY <2>5, <2>6
<1>7. CASE AsmApplied(o)
  <2>1. SameAssembly
    BY <1>0, <1>7 DEF AsmApplied, UndoRoutes, Goto, SameAssembly, Running
  <2>2. SamePlanes /\ UNCHANGED cancelFlag
    BY <1>1, <1>7, ZenonT(40) DEF AsmApplied
  <2>3. CASE cancelFlag
    <3>1. Hidden
      BY <2>1, <2>2, <2>3, <1>7 DEF AsmApplied, Hidden
    <3>. QED
      BY <3>1, HiddenIsStutter
  <2>4. CASE ~cancelFlag
    <3>1. asm[o] = "applied" /\ Publish(Event(o, "Connecting"))
      BY <2>4, <1>7 DEF AsmApplied
    <3>. QED
      BY <3>1, <2>1, <2>2, <1>2, ProgressStep, SMTT(30)
  <2>. QED
    BY <2>3, <2>4
<1>8. CASE AsmInstall(o)
  <2>1. CASE CanInstall(o)
    <3>1. \A p \in Ops : PlaneState(p) = "none"
      BY <1>0, <1>8, IdsAssumption, Zenon DEF AsmInstall, LockDiscipline,
         BeforeInstall, PlaneHome, PlaneState
    <3>2. CurrentPlane = [op |-> None, state |-> "none"]
      BY <3>1, NoPlaneLeft, SMTT(30)
    <3>3. PlaneState(o)' = "up" /\ bound'[o] = o
      BY <2>1, <1>0, <1>8, ZenonT(40) DEF AsmInstall, CanInstall, Alive, PlaneState,
         Generations
    <3>4. CurrentPlane' = [op |-> o, state |-> "up"]
      BY <3>3, <1>0, OnePlaneNext, ZenonT(40)
    <3>5. Running(o)' /\ asm'[o] = "reset"
      BY <2>1, <1>0, <1>8, Zenon DEF AsmInstall, Goto, Running
    <3>6. Assembling' = o /\ Settled'
      BY <3>5, <1>0, RunningWillBe
    <3>7. Settled' = TRUE
      BY <3>6, SMTT(30) DEF Settled
    <3>8. Assembling = o /\ Settled = FALSE
      BY <1>2, <1>8, SMTT(30) DEF AsmInstall
    <3>9. ~cancelFlag /\ UNCHANGED cancelFlag
          /\ Publish(Event(o, "Connected"))
      BY <2>1, <1>8 DEF AsmInstall, CanInstall
    <3>10. Contract!Publish(Contract!Event(Assembling, "Connected"))
      BY <3>8, <3>9, SamePublish, ZenonT(40)
    <3>11. Contract!Establish
      BY <3>2, <3>4, <3>6, <3>7, <3>8, <3>9, <3>10, <1>0, SMTT(30) DEF Contract!Establish
    <3>. QED
      BY <3>11, SMTT(30) DEF ContractStep, Contract!RuntimeStep
  <2>2. CASE ~CanInstall(o)
    <3>1. SameAssembly
      BY <2>2, <1>0, <1>8, SMTT(30) DEF AsmInstall, Goto, SameAssembly, Running
    <3>2. Hidden
      BY <3>1, <2>2, <1>1, <1>8 DEF AsmInstall, Hidden
    <3>. QED
      BY <3>2, HiddenIsStutter
  <2>. QED
    BY <2>1, <2>2
<1>9. CASE AsmFailed(o)
  <2>1. Running(o)' /\ asm'[o] = "reset"
    BY <1>0, <1>9, SMTT(30) DEF AsmFailed, Goto, Running
  <2>2. Assembling' = o /\ Settled'
    BY <2>1, <1>0, RunningWillBe
  <2>3. Settled' = TRUE
    BY <2>2 DEF Settled
  <2>4. Assembling = o /\ Settled = FALSE
    BY <1>2, <1>9 DEF AsmFailed
  <2>5. SamePlanes
    BY <1>1, <1>9, ZenonT(40) DEF AsmFailed
  <2>6. UNCHANGED <<cancelFlag, CurrentPlane>> /\ Publish(Event(o, "Failed"))
    BY <2>5, <1>9, Frames DEF AsmFailed
  <2>7. Contract!Publish(Contract!Event(Assembling, "Failed"))
    BY <2>4, <2>6, SamePublish, Zenon
  <2>8. Contract!Abort
    BY <2>2, <2>3, <2>4, <2>6, <2>7, <1>0 DEF Contract!Abort
  <2>. QED
    BY <2>8, SMTT(30) DEF ContractStep, Contract!RuntimeStep
<1>10. CASE AsmReset(o)
  <2>1. Running(o) /\ asm[o] = "reset"
    BY <1>10 DEF AsmReset, Running
  <2>2. Assembling = o /\ Settled
    BY <2>1, <1>0, RunningIs, SMTT(30)
  <2>3. \A p \in Ops : ~Running(p)'
    BY <2>1, <1>0, <1>10 DEF AsmReset, Goto, Running, SingleAssembly
  <2>4. Assembling' = None /\ ~Settled'
    BY <2>3, NoneWillRun
  <2>5. Settled' = FALSE
    BY <2>4 DEF Settled
  <2>6. SamePlanes
    BY <1>1, <1>10, ZenonT(40) DEF AsmReset
  <2>7. UNCHANGED <<cancelFlag, CurrentPlane, latest>>
    BY <2>6, <1>10, Frames, SMTT(30) DEF AsmReset
  <2>8. Contract!Finish
    BY <2>2, <2>4, <2>5, <2>7, <1>0 DEF Contract!Finish
  <2>. QED
    BY <2>8 DEF ContractStep, Contract!RuntimeStep
<1>. QED
  BY <1>3, <1>4, <1>5, <1>6, <1>7, <1>8, <1>9, <1>10, Zenon

\* The data plane.
LEMMA PlaneRefines ==
    ASSUME RefInv, RefInv'
    PROVE  /\ \A o \in Ops : WorkerLost(o) \/ WorkerPublish(o) => ContractStep
           /\ CleanStop => ContractStep
<1>0. /\ stop \in [Ops -> BOOLEAN] /\ cleaning \in Ops \cup {None}
      /\ bound \in [Ops -> Ops \cup {None}]
      /\ worker \in [Ops -> {"none", "waiting", "running", "lost", "notified",
                             "published", "exited"}]
      /\ LockDiscipline /\ PlaneHome /\ LockDiscipline' /\ PlaneHome'
  BY Zenon DEF RefInv, Inv, TypeOK
<1> USE DEF flagVars, hostVars, lockVars, asmVars, planeVars
<1>1. ASSUME UNCHANGED asm PROVE UNCHANGED <<Assembling, Settled>>
  <2>1. SameAssembly
    BY <1>1 DEF SameAssembly, Running
  <2>. QED
    BY <2>1, Frames
<1>2. ASSUME NEW o \in Ops, WorkerLost(o) PROVE ContractStep
  <2>1. PlaneState(o) \in {"up", "closing"} /\ PlaneState(o)' = "lost"
    BY <1>0, <1>2, SMTT(30) DEF WorkerLost, PlaneState
  <2>2. CurrentPlane = [op |-> bound[o], state |-> PlaneState(o)]
    BY <2>1, <1>0, OnePlane, SMTT(30)
  <2>3. CurrentPlane' = [op |-> bound'[o], state |-> "lost"]
    BY <2>1, <1>0, OnePlaneNext, SMTT(30)
  <2>4. bound'[o] = bound[o]
        /\ UNCHANGED <<Assembling, Settled, cancelFlag, latest>>
    BY <1>1, <1>2, Zenon DEF WorkerLost
  <2>5. Contract!Lose
    BY <2>1, <2>2, <2>3, <2>4 DEF Contract!Lose
  <2>. QED
    BY <2>5, SMTT(30) DEF ContractStep, Contract!RuntimeStep
<1>3. ASSUME NEW o \in Ops, WorkerPublish(o) PROVE ContractStep
  <2>1. PlaneState(o) = "lost" /\ PlaneState(o)' = "none"
    BY <1>0, <1>3, SMTT(30) DEF WorkerPublish, PlaneState
  <2>2. CurrentPlane = [op |-> bound[o], state |-> "lost"]
        /\ \A q \in Ops : PlaneState(q) # "none" => q = o
    BY <2>1, <1>0, OnePlane, SMTT(30)
  <2>3. \A q \in Ops : PlaneState(q)' = "none"
    BY <2>1, <2>2, <1>0, <1>3 DEF WorkerPublish, PlaneState
  <2>4. CurrentPlane' = [op |-> None, state |-> "none"]
    BY <2>3, NoPlaneNext, SMTT(30)
  <2>5. UNCHANGED <<Assembling, Settled, cancelFlag>>
    BY <1>1, <1>3 DEF WorkerPublish
  <2>6. CurrentPlane.op = bound[o]
    BY <2>2
  <2>7. Contract!Publish(Contract!Event(CurrentPlane.op, "Failed"))
    BY <2>6, <1>3, SamePublish, ZenonT(40) DEF WorkerPublish
  <2>8. Contract!ReportLoss
    BY <2>2, <2>4, <2>5, <2>7 DEF Contract!ReportLoss, Contract!NoPlane
  <2>. QED
    BY <2>8, SMTT(30) DEF ContractStep, Contract!RuntimeStep
<1>4. ASSUME CleanStop PROVE ContractStep
  <2>1. cleaning \in Ops /\ live = None /\ cleaning # None
    BY <1>0, <1>4, Zenon DEF CleanStop, LockDiscipline
  <2>2. PICK p \in Ops : p = cleaning
    BY <2>1, SMTT(30)
  <2>3. UNCHANGED <<Assembling, Settled, cancelFlag, latest>>
    BY <1>1, <1>4 DEF CleanStop
  <2>4. CASE PlaneState(p) = "closing"
    <3>1. CurrentPlane = [op |-> bound[p], state |-> "closing"]
          /\ \A q \in Ops : PlaneState(q) # "none" => q = p
      BY <2>4, <1>0, OnePlane, SMTT(30)
    <3>2. \A q \in Ops : PlaneState(q)' = "none"
      BY <3>1, <2>2, <2>4, <1>0, <1>4, SMTT(30) DEF CleanStop, PlaneState
    <3>3. CurrentPlane' = [op |-> None, state |-> "none"]
      BY <3>2, NoPlaneNext
    <3>4. Contract!Quiesce
      BY <2>3, <3>1, <3>3 DEF Contract!Quiesce, Contract!NoPlane
    <3>. QED
      BY <3>4, SMTT(30) DEF ContractStep, Contract!RuntimeStep
  <2>5. CASE PlaneState(p) # "closing"
    <3>1. SamePlanes
      BY <2>1, <2>2, <2>5, <1>0, <1>4, SMTT(30) DEF CleanStop, SamePlanes, PlaneState
    <3>2. SameAssembly
      BY <1>4 DEF CleanStop, SameAssembly, Running
    <3>3. Hidden
      BY <3>1, <3>2, <2>3 DEF Hidden
    <3>. QED
      BY <3>3, HiddenIsStutter, SMTT(30)
  <2>. QED
    BY <2>4, <2>5, SMTT(30)
<1>. QED
  BY <1>2, <1>3, <1>4, ZenonT(40)

\* Every step is a step of the contract or hidden from it.
LEMMA StepRefines ==
    ASSUME RefInv, RefInv', [Next]_vars PROVE ContractStep
  BY HiddenSteps, HiddenIsStutter, CallerRefines, AssemblyRefines,
     PlaneRefines, ZenonT(40)

\* The runtime starts as the contract does.
LEMMA InitRefines == ASSUME Init PROVE RefInv /\ Contract!ContractInit
<1>1. RefInv
  BY InitInv, IdsAssumption DEF RefInv, Init, PlaneHome, Signalled
<1>2. Assembling = None /\ ~Settled
  BY NoneRuns DEF Init, Running
<1>3. Settled = FALSE
  BY <1>2, SMTT(30) DEF Settled
<1>4. CurrentPlane = [op |-> None, state |-> "none"]
  BY NoPlaneLeft DEF Init, PlaneState
<1>. QED
  BY <1>1, <1>2, <1>3, <1>4, SMTT(30) DEF Init, NoEvent, Contract!ContractInit,
     Contract!NoPlane, Contract!NoEvent, Contract!Event

\* The threads of tunnel_runtime.rs implement the contract, whatever requests,
\* stops, losses and failures occur: each of their steps is one of the
\* contract's steps or invisible to the callers.
THEOREM RuntimeImplementsContract == Spec => ImplementsContract
<1>1. RefInv /\ [Next]_vars => RefInv'
  BY InvStep, HomeStep, SignalStep DEF RefInv, Inv
<1>2. Init => RefInv /\ Contract!ContractInit
  BY InitRefines
<1>3. RefInv /\ RefInv' /\ [Next]_vars
      => [Contract!RuntimeStep \/ Contract!CallerStep]_(Contract!contractVars)
  BY StepRefines DEF ContractStep
<1>. QED
  BY <1>1, <1>2, <1>3, PTL DEF Spec, ImplementsContract, Contract!ContractSpec

=============================================================================
