-------------------------- MODULE Generator_proof --------------------------
(***************************************************************************)
(* What holds of the generator for every number of scenarios, instances,    *)
(* workers and intervals, and every churn rate.                             *)
(***************************************************************************)
EXTENDS Generator, Lemmas_proof

(* Dividing a natural number by a positive one: the accumulated churn of    *)
(* consumeNextChurnCount (receiver.go:341-343) gives a natural number of    *)
(* replacements and a remainder below the denominator.                      *)
LEMMA DivMod ==
    ASSUME NEW a \in Nat, NEW b \in Nat, b > 0
    PROVE  a \div b \in Nat /\ a % b \in 0 .. (b - 1)
  BY SMT

(* A worker is a pair of its scenario and its number in the loop of         *)
(* receiver.go:372.                                                         *)
LEMMA WorkerPair ==
    ASSUME NEW w \in Worker
    PROVE  /\ w = <<w[1], w[2]>> /\ w[1] \in Scenario
           /\ w[2] \in 0 .. (Concurrency[w[1]] - 1) /\ w[2] \in Nat
  BY ConcurrencyAssumption DEF Worker

LEMMA PairWorker ==
    ASSUME NEW s \in Scenario, NEW n \in Nat, n < Concurrency[s]
    PROVE  <<s, n>> \in Worker
<1>1. n \in 0 .. (Concurrency[s] - 1)
  BY ConcurrencyAssumption
<1> QED
  BY <1>1 DEF Worker

(* The replacements due in an interval and the fraction carried over are    *)
(* natural numbers (receiver.go:335-345).                                   *)
LEMMA ChurnCountNat ==
    ASSUME NEW s \in Scenario, NEW r \in Nat
    PROVE  /\ NextChurnCount(r, Rate[s]) \in Nat
           /\ NextChurnRemainder(r, Rate[s]) \in Nat
<1>1. Rate[s].replacements \in Nat /\ Rate[s].intervals \in Nat
  BY RateAssumption
<1>2. CASE enabled(Rate[s])
  <2>1. r + Rate[s].replacements \in Nat /\ Rate[s].intervals > 0
    BY <1>1, <1>2 DEF enabled
  <2> QED
    BY <1>1, <1>2, <2>1, DivMod DEF NextChurnCount, NextChurnRemainder
<1> QED
  BY <1>2 DEF NextChurnCount, NextChurnRemainder

(* Counting one more at an argument keeps a function to Nat one.            *)
LEMMA Incremented ==
    ASSUME NEW S, NEW f \in [S -> Nat], NEW x
    PROVE  [f EXCEPT ![x] = @ + 1] \in [S -> Nat]
<1> DEFINE g == [f EXCEPT ![x] = @ + 1]
<1>1. ASSUME NEW y \in S
      PROVE  g[y] \in Nat
  <2>1. CASE y = x
    BY <2>1
  <2>2. CASE y # x
    BY <2>2
  <2> QED
    BY <2>1, <2>2
<1>2. g = [y \in S |-> g[y]]
  OBVIOUS
<1> HIDE DEF g
<1>3. g \in [S -> Nat]
  BY <1>1, <1>2, Zenon
<1> QED
  BY <1>3 DEF g

(* Every step keeps the generator goroutine at one of its places.            *)
LEMMA MainTypeStep ==
    ASSUME MainTypeOK, DataTypeOK, PlacesInv, [Next]_vars
    PROVE  MainTypeOK'
<1>1. CASE Start
  BY <1>1
     DEF Start, MainTypeOK, MainPC, workerVars, countVars, churnVars,
         envVars
<1>2. CASE LoopCheck
  BY <1>2, NumScenariosAssumption
     DEF LoopCheck, MainTypeOK, MainPC, workerVars, countVars, churnVars,
         envVars
<1>3. CASE Pace
  BY <1>3, NumIntervalsAssumption
     DEF Pace, MainTypeOK, PlacesInv, MainPC, workerVars, countVars,
         churnVars, envVars
<1>4. CASE ReportExit
  BY <1>4
     DEF ReportExit, MainTypeOK, MainPC, workerVars, countVars, churnVars,
         envVars
<1>5. CASE AdvanceTemplate
  BY <1>5
     DEF AdvanceTemplate, MainTypeOK, MainPC, workerVars, countVars,
         churnVars, envVars
<1>6. CASE AllScenariosStarted
  BY <1>6
     DEF AllScenariosStarted, MainTypeOK, MainPC, workerVars, countVars,
         churnVars, envVars
<1>7. CASE EmitInline
  BY <1>7
     DEF EmitInline, MainTypeOK, MainPC, workerVars, countVars, churnVars,
         envVars
<1>8. CASE LoadDataPoints
  BY <1>8
     DEF LoadDataPoints, MainTypeOK, MainPC, DataTypeOK, workerVars,
         countVars, churnVars, envVars
<1>9. CASE StoreDataPoints
  BY <1>9
     DEF StoreDataPoints, MainTypeOK, MainPC, workerVars, countVars,
         churnVars, envVars
<1>10. CASE InlineDone
  BY <1>10, NumScenariosAssumption
     DEF InlineDone, MainTypeOK, PlacesInv, InScenario, Scenario, MainPC,
         workerVars, countVars, churnVars, envVars
<1>11. CASE SpawnWorker
  BY <1>11
     DEF SpawnWorker, MainTypeOK, MainPC, workerVars, countVars, churnVars,
         envVars
<1>12. CASE SpawnDone
  BY <1>12, NumScenariosAssumption
     DEF SpawnDone, MainTypeOK, PlacesInv, InScenario, Scenario, MainPC,
         workerVars, countVars, churnVars, envVars
<1>13. CASE WaitForWorkers
  BY <1>13, NumScenariosAssumption
     DEF WaitForWorkers, MainTypeOK, MainPC, workerVars, countVars,
         churnVars, envVars
<1>14. CASE ApplyChurn
  BY <1>14, NumScenariosAssumption
     DEF ApplyChurn, MainTypeOK, Scenario, workerVars, countVars, churnVars,
         envVars
<1>15. CASE ChurnDone
  BY <1>15
     DEF ChurnDone, MainTypeOK, MainPC, workerVars, countVars, churnVars,
         envVars
<1>16. ASSUME NEW w \in Worker, WorkerEmit(w)
      PROVE  MainTypeOK'
  BY <1>16
     DEF WorkerEmit, MainTypeOK, mainVars, countVars, churnVars, envVars
<1>17. ASSUME NEW w \in Worker, WorkerCount(w)
      PROVE  MainTypeOK'
  BY <1>17
     DEF WorkerCount, MainTypeOK, mainVars, countVars, churnVars, envVars
<1>18. ASSUME NEW w \in Worker, WorkerDone(w)
      PROVE  MainTypeOK'
  BY <1>18
     DEF WorkerDone, MainTypeOK, mainVars, countVars, churnVars, envVars
<1>19. CASE CancelParent
  BY <1>19
     DEF CancelParent, MainTypeOK, mainVars, workerVars, countVars,
         churnVars
<1>20. CASE Shutdown
  BY <1>20
     DEF Shutdown, MainTypeOK, mainVars, workerVars, countVars, churnVars
<1>21. CASE ShutdownReturns
  BY <1>21
     DEF ShutdownReturns, MainTypeOK, mainVars, workerVars, countVars,
         churnVars
<1>22. CASE TickerFires
  BY <1>22
     DEF TickerFires, MainTypeOK, mainVars, workerVars, countVars, churnVars
<1>23. CASE Terminated
  BY <1>23
     DEF Terminated, MainTypeOK, mainVars, workerVars, countVars, churnVars,
         vars, envVars
<1>24. CASE UNCHANGED vars
  BY <1>24
     DEF MainTypeOK, mainVars, workerVars, countVars, churnVars, vars,
         envVars
<1> QED
  BY <1>1, <1>2, <1>3, <1>4, <1>5, <1>6, <1>7, <1>8, <1>9, <1>10, <1>11,
     <1>12, <1>13, <1>14, <1>15, <1>16, <1>17, <1>18, <1>19, <1>20, <1>21,
     <1>22, <1>23, <1>24
     DEF Next, MainNext, WorkerNext

(* Every step keeps the workers at one of their places.                     *)
LEMMA WorkerTypeStep ==
    ASSUME MainTypeOK, WorkerTypeOK, DataTypeOK, PlacesInv, [Next]_vars
    PROVE  WorkerTypeOK'
<1>1. CASE Start
  BY <1>1
     DEF Start, WorkerTypeOK, workerVars, countVars, churnVars, envVars
<1>2. CASE LoopCheck
  BY <1>2
     DEF LoopCheck, WorkerTypeOK, workerVars, countVars, churnVars, envVars
<1>3. CASE Pace
  BY <1>3
     DEF Pace, WorkerTypeOK, workerVars, countVars, churnVars, envVars
<1>4. CASE ReportExit
  BY <1>4
     DEF ReportExit, WorkerTypeOK, workerVars, countVars, churnVars, envVars
<1>5. CASE AdvanceTemplate
  BY <1>5
     DEF AdvanceTemplate, WorkerTypeOK, workerVars, countVars, churnVars,
         envVars
<1>6. CASE AllScenariosStarted
  BY <1>6
     DEF AllScenariosStarted, WorkerTypeOK, workerVars, countVars,
         churnVars, envVars
<1>7. CASE EmitInline
  BY <1>7
     DEF EmitInline, WorkerTypeOK, workerVars, countVars, churnVars, envVars
<1>8. CASE LoadDataPoints
  BY <1>8
     DEF LoadDataPoints, WorkerTypeOK, workerVars, countVars, churnVars,
         envVars
<1>9. CASE StoreDataPoints
  BY <1>9
     DEF StoreDataPoints, WorkerTypeOK, workerVars, countVars, churnVars,
         envVars
<1>10. CASE InlineDone
  BY <1>10
     DEF InlineDone, WorkerTypeOK, workerVars, countVars, churnVars, envVars
<1>11. CASE SpawnWorker
  <2>1. <<scn, i>> \in Worker
    BY <1>11, PairWorker DEF SpawnWorker, MainTypeOK, PlacesInv, InScenario
  <2>2. draws + 1 \in Nat
    BY DEF DataTypeOK
  <2> QED
    BY <1>11, <2>1, <2>2 DEF SpawnWorker, WorkerTypeOK
<1>12. CASE SpawnDone
  BY <1>12
     DEF SpawnDone, WorkerTypeOK, workerVars, countVars, churnVars, envVars
<1>13. CASE WaitForWorkers
  BY <1>13
     DEF WaitForWorkers, WorkerTypeOK, workerVars, countVars, churnVars,
         envVars
<1>14. CASE ApplyChurn
  BY <1>14
     DEF ApplyChurn, WorkerTypeOK, workerVars, countVars, churnVars, envVars
<1>15. CASE ChurnDone
  BY <1>15
     DEF ChurnDone, WorkerTypeOK, workerVars, countVars, churnVars, envVars
<1>16. ASSUME NEW w \in Worker, WorkerEmit(w)
      PROVE  WorkerTypeOK'
  BY <1>16
     DEF WorkerEmit, WorkerTypeOK, mainVars, countVars, churnVars, envVars
<1>17. ASSUME NEW w \in Worker, WorkerCount(w)
      PROVE  WorkerTypeOK'
  BY <1>17
     DEF WorkerCount, WorkerTypeOK, mainVars, countVars, churnVars, envVars
<1>18. ASSUME NEW w \in Worker, WorkerDone(w)
      PROVE  WorkerTypeOK'
  BY <1>18
     DEF WorkerDone, WorkerTypeOK, mainVars, countVars, churnVars, envVars
<1>19. CASE CancelParent
  BY <1>19
     DEF CancelParent, WorkerTypeOK, mainVars, workerVars, countVars,
         churnVars
<1>20. CASE Shutdown
  BY <1>20
     DEF Shutdown, WorkerTypeOK, mainVars, workerVars, countVars, churnVars
<1>21. CASE ShutdownReturns
  BY <1>21
     DEF ShutdownReturns, WorkerTypeOK, mainVars, workerVars, countVars,
         churnVars
<1>22. CASE TickerFires
  BY <1>22
     DEF TickerFires, WorkerTypeOK, mainVars, workerVars, countVars,
         churnVars
<1>23. CASE Terminated
  BY <1>23
     DEF Terminated, WorkerTypeOK, mainVars, workerVars, countVars,
         churnVars, vars, envVars
<1>24. CASE UNCHANGED vars
  BY <1>24
     DEF WorkerTypeOK, mainVars, workerVars, countVars, churnVars, vars,
         envVars
<1> QED
  BY <1>1, <1>2, <1>3, <1>4, <1>5, <1>6, <1>7, <1>8, <1>9, <1>10, <1>11,
     <1>12, <1>13, <1>14, <1>15, <1>16, <1>17, <1>18, <1>19, <1>20, <1>21,
     <1>22, <1>23, <1>24
     DEF Next, MainNext, WorkerNext

(* Every step keeps the counters, templates and instances in their range.    *)
LEMMA DataTypeStep ==
    ASSUME TypeOK, PlacesInv, [Next]_vars
    PROVE  DataTypeOK'
<1>1. CASE Start
  BY <1>1
     DEF Start, DataTypeOK, TypeOK, workerVars, countVars, churnVars,
         envVars
<1>2. CASE LoopCheck
  BY <1>2
     DEF LoopCheck, DataTypeOK, TypeOK, workerVars, countVars, churnVars,
         envVars
<1>3. CASE Pace
  BY <1>3
     DEF Pace, DataTypeOK, TypeOK, NothingSent, workerVars, countVars,
         churnVars, envVars
<1>4. CASE ReportExit
  BY <1>4
     DEF ReportExit, DataTypeOK, TypeOK, workerVars, countVars, churnVars,
         envVars
<1>5. CASE AdvanceTemplate
  BY <1>5
     DEF AdvanceTemplate, DataTypeOK, TypeOK, workerVars, countVars,
         churnVars, envVars
<1>6. CASE AllScenariosStarted
  BY <1>6
     DEF AllScenariosStarted, DataTypeOK, TypeOK, workerVars, countVars,
         churnVars, envVars
<1>7. CASE EmitInline
  <2>1. [sent EXCEPT ![<<scn, i>>] = @ + 1] \in [Emitter -> Nat]
    BY Incremented DEF TypeOK, DataTypeOK
  <2> QED
    BY <1>7, <2>1 DEF EmitInline, TypeOK, DataTypeOK, countVars, churnVars
<1>8. CASE LoadDataPoints
  BY <1>8
     DEF LoadDataPoints, DataTypeOK, TypeOK, workerVars, countVars,
         churnVars, envVars
<1>9. CASE StoreDataPoints
  BY <1>9, PointsAssumption
     DEF StoreDataPoints, DataTypeOK, TypeOK, MainTypeOK, PlacesInv,
         InScenario, workerVars, countVars, churnVars, envVars
<1>10. CASE InlineDone
  BY <1>10
     DEF InlineDone, DataTypeOK, TypeOK, workerVars, countVars, churnVars,
         envVars
<1>11. CASE SpawnWorker
  BY <1>11
     DEF SpawnWorker, DataTypeOK, TypeOK, workerVars, countVars, churnVars,
         envVars
<1>12. CASE SpawnDone
  BY <1>12
     DEF SpawnDone, DataTypeOK, TypeOK, workerVars, countVars, churnVars,
         envVars
<1>13. CASE WaitForWorkers
  BY <1>13
     DEF WaitForWorkers, DataTypeOK, TypeOK, workerVars, countVars,
         churnVars, envVars
<1>14. CASE ApplyChurn
  <2> DEFINE churn == NextChurnCount(remainder[scn], Rate[scn])
  <2>1. /\ churn \in Nat
        /\ NextChurnRemainder(remainder[scn], Rate[scn]) \in Nat
    BY <1>14, ChurnCountNat DEF ApplyChurn, TypeOK, DataTypeOK
  <2>2. PICK rendered \in SUBSET ReplacementIDs(nextID[scn], churn) :
          /\ remainder' = [remainder EXCEPT
                             ![scn] = NextChurnRemainder(@, Rate[scn])]
          /\ nextID' = [nextID EXCEPT ![scn] = @ + churn]
          /\ instances' = [instances EXCEPT
                             ![scn] = Replaced(@, Scale[scn], rendered, 0)]
          /\ draws' = draws + churn
    BY <1>14 DEF ApplyChurn
  <2>3. DOMAIN Replaced(instances[scn], Scale[scn], rendered, 0) = Slots(scn)
    BY DEF Replaced, Slots
  <2> HIDE DEF churn
  <2>4. /\ DOMAIN instances' = Scenario
        /\ \A s \in Scenario : DOMAIN instances'[s] = Slots(s)
    BY <2>2, <2>3 DEF TypeOK, DataTypeOK
  <2>5. scn \in Scenario
    BY <1>14 DEF ApplyChurn
  <2>6. /\ remainder' \in [Scenario -> Nat] /\ nextID' \in [Scenario -> Nat]
        /\ draws' \in Nat
    BY <2>1, <2>2, <2>5 DEF TypeOK, DataTypeOK
  <2> QED
    BY <1>14, <2>4, <2>6 DEF ApplyChurn, TypeOK, DataTypeOK, countVars
<1>15. CASE ChurnDone
  BY <1>15
     DEF ChurnDone, DataTypeOK, TypeOK, workerVars, countVars, churnVars,
         envVars
<1>16. ASSUME NEW w \in Worker, WorkerEmit(w)
      PROVE  DataTypeOK'
  <2>1. [sent EXCEPT ![<<w[1], SlotOf(w, j[w])>>] = @ + 1]
          \in [Emitter -> Nat]
    BY Incremented DEF TypeOK, DataTypeOK
  <2> QED
    BY <1>16, <2>1 DEF WorkerEmit, TypeOK, DataTypeOK, countVars, churnVars
<1>17. ASSUME NEW w \in Worker, WorkerCount(w)
      PROVE  DataTypeOK'
  <2>1. Points[w[1]] \in Nat
    BY WorkerPair, PointsAssumption
  <2> QED
    BY <1>17, <2>1 DEF WorkerCount, TypeOK, DataTypeOK, churnVars
<1>18. ASSUME NEW w \in Worker, WorkerDone(w)
      PROVE  DataTypeOK'
  BY <1>18
     DEF WorkerDone, DataTypeOK, TypeOK, mainVars, countVars, churnVars,
         envVars
<1>19. CASE CancelParent
  BY <1>19
     DEF CancelParent, DataTypeOK, TypeOK, mainVars, workerVars, countVars,
         churnVars
<1>20. CASE Shutdown
  BY <1>20
     DEF Shutdown, DataTypeOK, TypeOK, mainVars, workerVars, countVars,
         churnVars
<1>21. CASE ShutdownReturns
  BY <1>21
     DEF ShutdownReturns, DataTypeOK, TypeOK, mainVars, workerVars,
         countVars, churnVars
<1>22. CASE TickerFires
  BY <1>22
     DEF TickerFires, DataTypeOK, TypeOK, mainVars, workerVars, countVars,
         churnVars
<1>23. CASE Terminated
  BY <1>23
     DEF Terminated, DataTypeOK, TypeOK, mainVars, workerVars, countVars,
         churnVars, vars, envVars
<1>24. CASE UNCHANGED vars
  BY <1>24
     DEF DataTypeOK, TypeOK, mainVars, workerVars, countVars, churnVars,
         vars, envVars
<1> QED
  BY <1>1, <1>2, <1>3, <1>4, <1>5, <1>6, <1>7, <1>8, <1>9, <1>10, <1>11,
     <1>12, <1>13, <1>14, <1>15, <1>16, <1>17, <1>18, <1>19, <1>20, <1>21,
     <1>22, <1>23, <1>24
     DEF Next, MainNext, WorkerNext

(* Every step keeps the context, the ticker and Shutdown in their states.    *)
LEMMA EnvTypeStep ==
    ASSUME MainTypeOK, EnvTypeOK, [Next]_vars
    PROVE  EnvTypeOK'
<1>1. CASE Start
  BY <1>1
     DEF Start, EnvTypeOK, workerVars, countVars, churnVars, envVars
<1>2. CASE LoopCheck
  BY <1>2
     DEF LoopCheck, EnvTypeOK, workerVars, countVars, churnVars, envVars
<1>3. CASE Pace
  BY <1>3
     DEF Pace, EnvTypeOK, workerVars, countVars, churnVars, envVars
<1>4. CASE ReportExit
  BY <1>4
     DEF ReportExit, EnvTypeOK, workerVars, countVars, churnVars, envVars
<1>5. CASE AdvanceTemplate
  BY <1>5
     DEF AdvanceTemplate, EnvTypeOK, workerVars, countVars, churnVars,
         envVars
<1>6. CASE AllScenariosStarted
  BY <1>6
     DEF AllScenariosStarted, EnvTypeOK, workerVars, countVars, churnVars,
         envVars
<1>7. CASE EmitInline
  BY <1>7
     DEF EmitInline, EnvTypeOK, workerVars, countVars, churnVars, envVars
<1>8. CASE LoadDataPoints
  BY <1>8
     DEF LoadDataPoints, EnvTypeOK, workerVars, countVars, churnVars,
         envVars
<1>9. CASE StoreDataPoints
  BY <1>9
     DEF StoreDataPoints, EnvTypeOK, workerVars, countVars, churnVars,
         envVars
<1>10. CASE InlineDone
  BY <1>10
     DEF InlineDone, EnvTypeOK, workerVars, countVars, churnVars, envVars
<1>11. CASE SpawnWorker
  BY <1>11
     DEF SpawnWorker, EnvTypeOK, workerVars, countVars, churnVars, envVars
<1>12. CASE SpawnDone
  BY <1>12
     DEF SpawnDone, EnvTypeOK, workerVars, countVars, churnVars, envVars
<1>13. CASE WaitForWorkers
  BY <1>13
     DEF WaitForWorkers, EnvTypeOK, workerVars, countVars, churnVars,
         envVars
<1>14. CASE ApplyChurn
  BY <1>14
     DEF ApplyChurn, EnvTypeOK, workerVars, countVars, churnVars, envVars
<1>15. CASE ChurnDone
  BY <1>15
     DEF ChurnDone, EnvTypeOK, workerVars, countVars, churnVars, envVars
<1>16. ASSUME NEW w \in Worker, WorkerEmit(w)
      PROVE  EnvTypeOK'
  BY <1>16
     DEF WorkerEmit, EnvTypeOK, mainVars, countVars, churnVars, envVars
<1>17. ASSUME NEW w \in Worker, WorkerCount(w)
      PROVE  EnvTypeOK'
  BY <1>17
     DEF WorkerCount, EnvTypeOK, mainVars, countVars, churnVars, envVars
<1>18. ASSUME NEW w \in Worker, WorkerDone(w)
      PROVE  EnvTypeOK'
  BY <1>18
     DEF WorkerDone, EnvTypeOK, mainVars, countVars, churnVars, envVars
<1>19. CASE CancelParent
  BY <1>19
     DEF CancelParent, EnvTypeOK, envVars, mainVars, workerVars, countVars,
         churnVars
<1>20. CASE Shutdown
  BY <1>20
     DEF Shutdown, EnvTypeOK, envVars, mainVars, workerVars, countVars,
         churnVars
<1>21. CASE ShutdownReturns
  BY <1>21
     DEF ShutdownReturns, EnvTypeOK, envVars, mainVars, workerVars,
         countVars, churnVars
<1>22. CASE TickerFires
  BY <1>22
     DEF TickerFires, EnvTypeOK, envVars, mainVars, workerVars, countVars,
         churnVars
<1>23. CASE Terminated
  BY <1>23
     DEF Terminated, EnvTypeOK, envVars, mainVars, workerVars, countVars,
         churnVars, vars, envVars
<1>24. CASE UNCHANGED vars
  BY <1>24
     DEF EnvTypeOK, mainVars, workerVars, countVars, churnVars, vars,
         envVars
<1> QED
  BY <1>1, <1>2, <1>3, <1>4, <1>5, <1>6, <1>7, <1>8, <1>9, <1>10, <1>11,
     <1>12, <1>13, <1>14, <1>15, <1>16, <1>17, <1>18, <1>19, <1>20, <1>21,
     <1>22, <1>23, <1>24
     DEF Next, MainNext, WorkerNext

(* Every step keeps the generator goroutine inside a scenario while it works *)
(* on one, and inside the time range while it produces.                      *)
LEMMA PlacesStep ==
    ASSUME MainTypeOK, PlacesInv, [Next]_vars
    PROVE  PlacesInv'
<1>1. CASE Start
  BY <1>1
     DEF Start, PlacesInv, Producing, InScenario, MainTypeOK, MainPC,
         workerVars, countVars, churnVars, envVars
<1>2. CASE LoopCheck
  BY <1>2, NumIntervalsAssumption
     DEF LoopCheck, PlacesInv, Producing, InScenario, MainTypeOK, MainPC,
         workerVars, countVars, churnVars, envVars
<1>3. CASE Pace
  BY <1>3
     DEF Pace, PlacesInv, Producing, InScenario, MainTypeOK, MainPC,
         workerVars, countVars, churnVars, envVars
<1>4. CASE ReportExit
  BY <1>4
     DEF ReportExit, PlacesInv, Producing, InScenario, MainTypeOK, MainPC,
         workerVars, countVars, churnVars, envVars
<1>5. CASE AdvanceTemplate
  BY <1>5
     DEF AdvanceTemplate, PlacesInv, Producing, InScenario, MainTypeOK,
         MainPC, workerVars, countVars, churnVars, envVars
<1>6. CASE AllScenariosStarted
  BY <1>6
     DEF AllScenariosStarted, PlacesInv, Producing, InScenario, MainTypeOK,
         MainPC, workerVars, countVars, churnVars, envVars
<1>7. CASE EmitInline
  BY <1>7
     DEF EmitInline, PlacesInv, Producing, InScenario, MainTypeOK, MainPC,
         workerVars, countVars, churnVars, envVars
<1>8. CASE LoadDataPoints
  BY <1>8
     DEF LoadDataPoints, PlacesInv, Producing, InScenario, MainTypeOK,
         MainPC, workerVars, countVars, churnVars, envVars
<1>9. CASE StoreDataPoints
  BY <1>9
     DEF StoreDataPoints, PlacesInv, Producing, InScenario, MainTypeOK,
         MainPC, workerVars, countVars, churnVars, envVars
<1>10. CASE InlineDone
  BY <1>10
     DEF InlineDone, PlacesInv, Producing, InScenario, MainTypeOK, MainPC,
         workerVars, countVars, churnVars, envVars
<1>11. CASE SpawnWorker
  BY <1>11
     DEF SpawnWorker, PlacesInv, Producing, InScenario, MainTypeOK, MainPC,
         workerVars, countVars, churnVars, envVars
<1>12. CASE SpawnDone
  BY <1>12
     DEF SpawnDone, PlacesInv, Producing, InScenario, MainTypeOK, MainPC,
         workerVars, countVars, churnVars, envVars
<1>13. CASE WaitForWorkers
  BY <1>13
     DEF WaitForWorkers, PlacesInv, Producing, InScenario, MainTypeOK,
         MainPC, workerVars, countVars, churnVars, envVars
<1>14. CASE ApplyChurn
  BY <1>14
     DEF ApplyChurn, PlacesInv, Producing, InScenario, MainTypeOK, MainPC,
         workerVars, countVars, churnVars, envVars
<1>15. CASE ChurnDone
  BY <1>15
     DEF ChurnDone, PlacesInv, Producing, InScenario, MainTypeOK, MainPC,
         workerVars, countVars, churnVars, envVars
<1>16. ASSUME NEW w \in Worker, WorkerEmit(w)
      PROVE  PlacesInv'
  BY <1>16
     DEF WorkerEmit, PlacesInv, Producing, InScenario, MainTypeOK, MainPC,
         mainVars, countVars, churnVars, envVars
<1>17. ASSUME NEW w \in Worker, WorkerCount(w)
      PROVE  PlacesInv'
  BY <1>17
     DEF WorkerCount, PlacesInv, Producing, InScenario, MainTypeOK, MainPC,
         mainVars, countVars, churnVars, envVars
<1>18. ASSUME NEW w \in Worker, WorkerDone(w)
      PROVE  PlacesInv'
  BY <1>18
     DEF WorkerDone, PlacesInv, Producing, InScenario, MainTypeOK, MainPC,
         mainVars, countVars, churnVars, envVars
<1>19. CASE CancelParent
  BY <1>19
     DEF CancelParent, PlacesInv, Producing, InScenario, MainTypeOK, MainPC,
         mainVars, workerVars, countVars, churnVars
<1>20. CASE Shutdown
  BY <1>20
     DEF Shutdown, PlacesInv, Producing, InScenario, MainTypeOK, MainPC,
         mainVars, workerVars, countVars, churnVars
<1>21. CASE ShutdownReturns
  BY <1>21
     DEF ShutdownReturns, PlacesInv, Producing, InScenario, MainTypeOK,
         MainPC, mainVars, workerVars, countVars, churnVars
<1>22. CASE TickerFires
  BY <1>22
     DEF TickerFires, PlacesInv, Producing, InScenario, MainTypeOK, MainPC,
         mainVars, workerVars, countVars, churnVars
<1>23. CASE Terminated
  BY <1>23
     DEF Terminated, PlacesInv, Producing, InScenario, MainTypeOK, MainPC,
         mainVars, workerVars, countVars, churnVars, vars, envVars
<1>24. CASE UNCHANGED vars
  BY <1>24
     DEF PlacesInv, Producing, InScenario, MainTypeOK, MainPC, mainVars,
         workerVars, countVars, churnVars, vars, envVars
<1> QED
  BY <1>1, <1>2, <1>3, <1>4, <1>5, <1>6, <1>7, <1>8, <1>9, <1>10, <1>11,
     <1>12, <1>13, <1>14, <1>15, <1>16, <1>17, <1>18, <1>19, <1>20, <1>21,
     <1>22, <1>23, <1>24
     DEF Next, MainNext, WorkerNext

(* Every step keeps the WaitGroup in line with the running workers, and the  *)
(* workers within produceMetrics.                                            *)
LEMMA WaitGroupStep ==
    ASSUME TypeOK, PlacesInv, WaitGroupInv, [Next]_vars
    PROVE  WaitGroupInv'
<1> USE DEF TypeOK
<1>1. CASE Start
  BY <1>1
     DEF Start, WaitGroupInv, Spawned, Producing, workerVars, countVars,
         churnVars, envVars
<1>2. CASE LoopCheck
  <2>1. wg = {}
    BY <1>2 DEF LoopCheck, WaitGroupInv, Spawned, Producing, WorkerTypeOK
  <2> QED
    BY <1>2, <2>1 DEF LoopCheck, WaitGroupInv, workerVars
<1>3. CASE Pace
  BY <1>3
     DEF Pace, WaitGroupInv, Spawned, Producing, workerVars, countVars,
         churnVars, envVars
<1>4. CASE ReportExit
  BY <1>4
     DEF ReportExit, WaitGroupInv, Spawned, Producing, workerVars,
         countVars, churnVars, envVars
<1>5. CASE AdvanceTemplate
  BY <1>5
     DEF AdvanceTemplate, WaitGroupInv, Spawned, Producing, workerVars,
         countVars, churnVars, envVars
<1>6. CASE AllScenariosStarted
  <2>1. \A w \in Worker : w[1] < scn' /\ pc' \in Producing
    BY <1>6, WorkerPair, NumScenariosAssumption
       DEF AllScenariosStarted, MainTypeOK, Scenario, Producing
  <2> QED
    BY <1>6, <2>1 DEF AllScenariosStarted, WaitGroupInv, Spawned, workerVars
<1>7. CASE EmitInline
  BY <1>7
     DEF EmitInline, WaitGroupInv, Spawned, Producing, workerVars,
         countVars, churnVars, envVars
<1>8. CASE LoadDataPoints
  BY <1>8
     DEF LoadDataPoints, WaitGroupInv, Spawned, Producing, workerVars,
         countVars, churnVars, envVars
<1>9. CASE StoreDataPoints
  BY <1>9
     DEF StoreDataPoints, WaitGroupInv, Spawned, Producing, workerVars,
         countVars, churnVars, envVars
<1>10. CASE InlineDone
  <2>1. \A w \in Worker : Spawned(w) => w[1] < scn + 1 /\ pc' \in Producing
    BY <1>10, WorkerPair, NumScenariosAssumption
       DEF InlineDone, MainTypeOK, Scenario, Spawned, Producing
  <2> QED
    BY <1>10, <2>1 DEF InlineDone, WaitGroupInv, Spawned, workerVars
<1>11. CASE SpawnWorker
  <2>1. <<scn, i>> \in Worker
    BY <1>11, PairWorker DEF SpawnWorker, MainTypeOK, PlacesInv, InScenario
  <2>2. ASSUME NEW w \in Worker, Spawned(w)
        PROVE  Spawned(w)'
    <3>1. w[2] \in Nat /\ i \in Nat
      BY WorkerPair DEF MainTypeOK
    <3> QED
      BY <1>11, <2>2, <3>1 DEF SpawnWorker, Spawned
  <2>3. \A w \in Worker : w = <<scn, i>> => Spawned(w)'
    BY <1>11 DEF SpawnWorker, Spawned, MainTypeOK
  <2>4. \A w \in Worker :
           wpc'[w] = IF w = <<scn, i>> THEN "emit" ELSE wpc[w]
    BY <1>11, <2>1 DEF SpawnWorker, WorkerTypeOK
  <2>5. wg' = wg \cup {<<scn, i>>}
    BY <1>11 DEF SpawnWorker
  <2>6. \A w \in Worker : w \in wg' <=> wpc'[w] # "idle"
    BY <2>4, <2>5 DEF WaitGroupInv
  <2>7. \A w \in Worker : w \in wg' => Spawned(w)'
    BY <2>2, <2>3, <2>5 DEF WaitGroupInv
  <2> QED
    BY <2>6, <2>7 DEF WaitGroupInv
<1>12. CASE SpawnDone
  <2>1. \A w \in Worker : Spawned(w) => w[1] < scn + 1 /\ pc' \in Producing
    BY <1>12, WorkerPair, NumScenariosAssumption
       DEF SpawnDone, MainTypeOK, Scenario, Spawned, Producing
  <2> QED
    BY <1>12, <2>1 DEF SpawnDone, WaitGroupInv, Spawned, workerVars
<1>13. CASE WaitForWorkers
  BY <1>13 DEF WaitForWorkers, WaitGroupInv, workerVars
<1>14. CASE ApplyChurn
  BY <1>14
     DEF ApplyChurn, WaitGroupInv, Spawned, Producing, workerVars,
         countVars, churnVars, envVars
<1>15. CASE ChurnDone
  BY <1>15
     DEF ChurnDone, WaitGroupInv, Spawned, Producing, workerVars, countVars,
         churnVars, envVars
<1>16. ASSUME NEW w \in Worker, WorkerEmit(w)
      PROVE  WaitGroupInv'
  <2>1. \A v \in Worker : wpc'[v] # "idle" <=> wpc[v] # "idle"
    BY <1>16 DEF WorkerEmit, WorkerTypeOK
  <2> QED
    BY <1>16, <2>1 DEF WorkerEmit, WaitGroupInv, Spawned, mainVars
<1>17. ASSUME NEW w \in Worker, WorkerCount(w)
      PROVE  WaitGroupInv'
  <2>1. \A v \in Worker : wpc'[v] # "idle" <=> wpc[v] # "idle"
    BY <1>17 DEF WorkerCount, WorkerTypeOK
  <2> QED
    BY <1>17, <2>1 DEF WorkerCount, WaitGroupInv, Spawned, mainVars
<1>18. ASSUME NEW w \in Worker, WorkerDone(w)
      PROVE  WaitGroupInv'
  <2>1. \A v \in Worker : wpc'[v] = IF v = w THEN "idle" ELSE wpc[v]
    BY <1>18 DEF WorkerDone, WorkerTypeOK
  <2> QED
    BY <1>18, <2>1 DEF WorkerDone, WaitGroupInv, Spawned, mainVars
<1>19. CASE CancelParent
  BY <1>19
     DEF CancelParent, WaitGroupInv, Spawned, Producing, mainVars,
         workerVars, countVars, churnVars
<1>20. CASE Shutdown
  BY <1>20
     DEF Shutdown, WaitGroupInv, Spawned, Producing, mainVars, workerVars,
         countVars, churnVars
<1>21. CASE ShutdownReturns
  BY <1>21
     DEF ShutdownReturns, WaitGroupInv, Spawned, Producing, mainVars,
         workerVars, countVars, churnVars
<1>22. CASE TickerFires
  BY <1>22
     DEF TickerFires, WaitGroupInv, Spawned, Producing, mainVars,
         workerVars, countVars, churnVars
<1>23. CASE Terminated
  BY <1>23
     DEF Terminated, WaitGroupInv, Spawned, Producing, mainVars, workerVars,
         countVars, churnVars, vars, envVars
<1>24. CASE UNCHANGED vars
  BY <1>24
     DEF WaitGroupInv, Spawned, Producing, mainVars, workerVars, countVars,
         churnVars, vars, envVars
<1> QED
  BY <1>1, <1>2, <1>3, <1>4, <1>5, <1>6, <1>7, <1>8, <1>9, <1>10, <1>11,
     <1>12, <1>13, <1>14, <1>15, <1>16, <1>17, <1>18, <1>19, <1>20, <1>21,
     <1>22, <1>23, <1>24
     DEF Next, MainNext, WorkerNext

(* Every step keeps the templates in line with the interval.                 *)
LEMMA TemplateStep ==
    ASSUME MainTypeOK, DataTypeOK, PlacesInv, TemplateInv, [Next]_vars
    PROVE  TemplateInv'
<1>1. CASE Start
  BY <1>1
     DEF Start, TemplateInv, Advanced, InScenario, MainTypeOK, DataTypeOK,
         Scenario, workerVars, countVars, churnVars, envVars
<1>2. CASE LoopCheck
  BY <1>2, NumScenariosAssumption
     DEF LoopCheck, TemplateInv, Advanced, InScenario, MainTypeOK,
         DataTypeOK, Scenario, workerVars, countVars, churnVars, envVars
<1>3. CASE Pace
  BY <1>3
     DEF Pace, TemplateInv, Advanced, InScenario, MainTypeOK, DataTypeOK,
         Scenario, workerVars, countVars, churnVars, envVars
<1>4. CASE ReportExit
  BY <1>4
     DEF ReportExit, TemplateInv, Advanced, InScenario, MainTypeOK,
         DataTypeOK, Scenario, workerVars, countVars, churnVars, envVars
<1>5. CASE AdvanceTemplate
  BY <1>5
     DEF AdvanceTemplate, TemplateInv, Advanced, InScenario, MainTypeOK,
         DataTypeOK, Scenario, workerVars, countVars, churnVars, envVars
<1>6. CASE AllScenariosStarted
  BY <1>6, NumScenariosAssumption
     DEF AllScenariosStarted, TemplateInv, Advanced, InScenario, MainTypeOK,
         DataTypeOK, Scenario, workerVars, countVars, churnVars, envVars
<1>7. CASE EmitInline
  BY <1>7
     DEF EmitInline, TemplateInv, Advanced, InScenario, MainTypeOK,
         DataTypeOK, Scenario, workerVars, countVars, churnVars, envVars
<1>8. CASE LoadDataPoints
  BY <1>8
     DEF LoadDataPoints, TemplateInv, Advanced, InScenario, MainTypeOK,
         DataTypeOK, Scenario, workerVars, countVars, churnVars, envVars
<1>9. CASE StoreDataPoints
  BY <1>9
     DEF StoreDataPoints, TemplateInv, Advanced, InScenario, MainTypeOK,
         DataTypeOK, Scenario, workerVars, countVars, churnVars, envVars
<1>10. CASE InlineDone
  BY <1>10
     DEF InlineDone, TemplateInv, Advanced, InScenario, MainTypeOK,
         DataTypeOK, Scenario, PlacesInv, workerVars, countVars, churnVars,
         envVars
<1>11. CASE SpawnWorker
  BY <1>11
     DEF SpawnWorker, TemplateInv, Advanced, InScenario, MainTypeOK,
         DataTypeOK, Scenario, workerVars, countVars, churnVars, envVars
<1>12. CASE SpawnDone
  BY <1>12
     DEF SpawnDone, TemplateInv, Advanced, InScenario, MainTypeOK,
         DataTypeOK, Scenario, PlacesInv, workerVars, countVars, churnVars,
         envVars
<1>13. CASE WaitForWorkers
  BY <1>13
     DEF WaitForWorkers, TemplateInv, Advanced, InScenario, MainTypeOK,
         DataTypeOK, Scenario, workerVars, countVars, churnVars, envVars
<1>14. CASE ApplyChurn
  BY <1>14
     DEF ApplyChurn, TemplateInv, Advanced, InScenario, MainTypeOK,
         DataTypeOK, Scenario, workerVars, countVars, churnVars, envVars
<1>15. CASE ChurnDone
  BY <1>15
     DEF ChurnDone, TemplateInv, Advanced, InScenario, MainTypeOK,
         DataTypeOK, Scenario, workerVars, countVars, churnVars, envVars
<1>16. ASSUME NEW w \in Worker, WorkerEmit(w)
      PROVE  TemplateInv'
  BY <1>16
     DEF WorkerEmit, TemplateInv, Advanced, InScenario, MainTypeOK,
         DataTypeOK, Scenario, mainVars, countVars, churnVars, envVars
<1>17. ASSUME NEW w \in Worker, WorkerCount(w)
      PROVE  TemplateInv'
  BY <1>17
     DEF WorkerCount, TemplateInv, Advanced, InScenario, MainTypeOK,
         DataTypeOK, Scenario, mainVars, countVars, churnVars, envVars
<1>18. ASSUME NEW w \in Worker, WorkerDone(w)
      PROVE  TemplateInv'
  BY <1>18
     DEF WorkerDone, TemplateInv, Advanced, InScenario, MainTypeOK,
         DataTypeOK, Scenario, mainVars, countVars, churnVars, envVars
<1>19. CASE CancelParent
  BY <1>19
     DEF CancelParent, TemplateInv, Advanced, InScenario, MainTypeOK,
         DataTypeOK, Scenario, mainVars, workerVars, countVars, churnVars
<1>20. CASE Shutdown
  BY <1>20
     DEF Shutdown, TemplateInv, Advanced, InScenario, MainTypeOK,
         DataTypeOK, Scenario, mainVars, workerVars, countVars, churnVars
<1>21. CASE ShutdownReturns
  BY <1>21
     DEF ShutdownReturns, TemplateInv, Advanced, InScenario, MainTypeOK,
         DataTypeOK, Scenario, mainVars, workerVars, countVars, churnVars
<1>22. CASE TickerFires
  BY <1>22
     DEF TickerFires, TemplateInv, Advanced, InScenario, MainTypeOK,
         DataTypeOK, Scenario, mainVars, workerVars, countVars, churnVars
<1>23. CASE Terminated
  BY <1>23
     DEF Terminated, TemplateInv, Advanced, InScenario, MainTypeOK,
         DataTypeOK, Scenario, mainVars, workerVars, countVars, churnVars,
         vars, envVars
<1>24. CASE UNCHANGED vars
  BY <1>24
     DEF TemplateInv, Advanced, InScenario, MainTypeOK, DataTypeOK,
         Scenario, mainVars, workerVars, countVars, churnVars, vars, envVars
<1> QED
  BY <1>1, <1>2, <1>3, <1>4, <1>5, <1>6, <1>7, <1>8, <1>9, <1>10, <1>11,
     <1>12, <1>13, <1>14, <1>15, <1>16, <1>17, <1>18, <1>19, <1>20, <1>21,
     <1>22, <1>23, <1>24
     DEF Next, MainNext, WorkerNext

LEMMA BarrierInvInit == Init => BarrierInv
<1> SUFFICES ASSUME Init PROVE BarrierInv
  OBVIOUS
<1>1. TypeOK
  <2>1. MainTypeOK
    BY NumScenariosAssumption, NumIntervalsAssumption
       DEF Init, MainTypeOK, MainPC
  <2>2. WorkerTypeOK
    BY DEF Init, WorkerTypeOK
  <2>3. DataTypeOK
    BY ScaleAssumption DEF Init, DataTypeOK, NothingSent
  <2>4. EnvTypeOK
    BY DEF Init, EnvTypeOK
  <2> QED
    BY <2>1, <2>2, <2>3, <2>4 DEF TypeOK
<1>2. PlacesInv
  BY DEF Init, PlacesInv, InScenario, Producing
<1>3. WaitGroupInv
  BY DEF Init, WaitGroupInv
<1>4. TemplateInv
  BY DEF Init, TemplateInv, Advanced, InScenario
<1> QED
  BY <1>1, <1>2, <1>3, <1>4 DEF BarrierInv

LEMMA BarrierInvStep == BarrierInv /\ [Next]_vars => BarrierInv'
  BY MainTypeStep, WorkerTypeStep, DataTypeStep, EnvTypeStep, PlacesStep,
     WaitGroupStep, TemplateStep
     DEF BarrierInv, TypeOK

(* The inductive invariant holds of every behaviour.                         *)
THEOREM BarrierCorrect == Spec => []BarrierInv
  BY BarrierInvInit, BarrierInvStep, PTL DEF Spec

(* Every variable of the generator stays in its range.                       *)
THEOREM TypeCorrect == Spec => []TypeOK
<1>1. BarrierInv => TypeOK
  BY DEF BarrierInv
<1> QED
  BY <1>1, BarrierCorrect, PTL

(* The generator goroutine never advances a template or replaces instances   *)
(* while a worker is about to read them (receiver.go:355, 326, 380, 394).    *)
THEOREM RaceFree == Spec => []NoDataRace
<1>1. BarrierInv => NoDataRace
  <2> SUFFICES ASSUME BarrierInv, NEW w \in Worker, NEW s \in Scenario, Reads(w, s)
               PROVE  ~(pc = "advance" /\ scn = s) /\ pc # "churn"
    BY DEF NoDataRace
  <2>1. Spawned(w) /\ w[1] = s
    BY DEF BarrierInv, WaitGroupInv, Reads
  <2>2. s \in Int /\ scn \in Int
    BY NumScenariosAssumption
       DEF BarrierInv, TypeOK, MainTypeOK, Scenario
  <2> QED
    BY <2>1, <2>2 DEF Spawned, Producing
<1> QED
  BY <1>1, BarrierCorrect, PTL

(* A worker emits the template of its own interval (receiver.go:352-364).    *)
THEOREM CurrentTemplate == Spec => []EmitsCurrentTemplate
<1>1. BarrierInv => EmitsCurrentTemplate
  <2> SUFFICES ASSUME BarrierInv, NEW w \in Worker, NEW s \in Scenario, Reads(w, s)
               PROVE  template[s] = interval + 1
    BY DEF EmitsCurrentTemplate
  <2>1. Spawned(w) /\ w[1] = s
    BY DEF BarrierInv, WaitGroupInv, Reads
  <2>2. s \in Int /\ scn \in Int /\ interval \in Int
    BY NumScenariosAssumption, NumIntervalsAssumption
       DEF BarrierInv, TypeOK, MainTypeOK, Scenario
  <2>3. Advanced(s) /\ pc # "returned"
    BY <2>1, <2>2 DEF Spawned, Advanced, Producing, InScenario
  <2>4. template[s] = interval + IF Advanced(s) THEN 1 ELSE 0
    BY <2>3 DEF BarrierInv, TemplateInv
  <2> QED
    BY <2>3, <2>4
<1> QED
  BY <1>1, BarrierCorrect, PTL

-----------------------------------------------------------------------------
(* The generator implements Rounds: however its goroutines interleave, the   *)
(* consumer sees every instance once per interval and no interval begins     *)
(* before the one before is complete.                                        *)

(* The turns of a worker, and the places of the inline loop of a scenario   *)
(* without workers (receiver.go:361-366, 378-383).                          *)
Turns(w) == 0 .. (PerWorker(w) - 1)
InlinePC == {"inline", "load", "store"}

(* Which emissions of this interval are done: of a worker, the turns before *)
(* the current one, and all of them once it has left the WaitGroup; of an   *)
(* inline scenario, the slots before the loop index.                        *)
TurnTaken(w, k) ==
    \/ pc \in {"churn", "pace"}
    \/ Spawned(w) /\ \/ wpc[w] = "idle"
                     \/ k < j[w]
                     \/ wpc[w] = "count" /\ k = j[w]

SlotTaken(s, slot) ==
    \/ pc \in {"churn", "pace"}
    \/ pc \in Producing /\ s < scn
    \/ pc \in InlinePC /\ s = scn /\ slot < i
    \/ pc \in {"load", "store"} /\ s = scn /\ slot = i

(* The inductive invariant of the refinement: `sent` is exactly what the    *)
(* program counters of the goroutines say.                                  *)
ModeInv ==
    /\ pc \in InlinePC => Concurrency[scn] = 0
    /\ pc = "spawn" => Concurrency[scn] # 0
    /\ pc = "wait" => scn \notin Scenario

WorkersSentInv ==
    \A w \in Worker : \A k \in Turns(w) :
        sent[<<w[1], SlotOf(w, k)>>] = IF TurnTaken(w, k) THEN 1 ELSE 0

InlineSentInv ==
    \A s \in Scenario : Concurrency[s] = 0 =>
        \A slot \in Slots(s) :
            sent[<<s, slot>>] = IF SlotTaken(s, slot) THEN 1 ELSE 0

EverythingSent == [e \in Emitter |-> 1]

SentInv ==
    /\ pc # "returned" => WorkersSentInv /\ InlineSentInv
    /\ pc = "returned" => sent \in {NothingSent, EverythingSent}

RoundsInv == BarrierInv /\ ModeInv /\ SentInv

-----------------------------------------------------------------------------
(* The slots of a scenario and the turns of its workers                     *)

(* Every worker of a scenario has the same share, and the shares are        *)
(* consecutive (receiver.go:370, 378-379).                                  *)
LEMMA Share ==
    ASSUME NEW w \in Worker
    PROVE  /\ PerWorker(w) \in Nat
           /\ Scale[w[1]] = Concurrency[w[1]] * PerWorker(w)
           /\ \A k \in Nat : SlotOf(w, k) = k + w[2] * PerWorker(w)
<1> DEFINE c == Concurrency[w[1]]
           n == Scale[w[1]]
           p == n \div c
<1>1. /\ w[1] \in Scenario /\ w[2] \in Nat
      /\ c \in Nat \ {0} /\ n \in Nat /\ n % c = 0
  BY WorkerPair, ConcurrencyAssumption, ScaleAssumption
<1> HIDE DEF c, n
<1>2. n = c * p /\ p \in Nat
  <2>1. n = p * c + (n % c) /\ p \in Nat
    BY <1>1, DivModSum, DivMod
  <2>2. PICK q \in Nat : q = p * c
    BY <1>1, <2>1
  <2> QED
    BY <1>1, <2>1, <2>2
<1> HIDE DEF p
<1>3. (w[2] * n) \div c = w[2] * p
  BY <1>1, <1>2, DivProduct
<1> QED
  BY <1>1, <1>2, <1>3 DEF PerWorker, SlotOf, c, n, p

(* A turn of a worker is a slot of its scenario ...                          *)
LEMMA SlotOfTurn ==
    ASSUME NEW w \in Worker, NEW k \in Turns(w)
    PROVE  /\ SlotOf(w, k) \in Slots(w[1])
           /\ <<w[1], SlotOf(w, k)>> \in Emitter
<1> DEFINE p == PerWorker(w)
           c == Concurrency[w[1]]
<1>1. /\ w[1] \in Scenario /\ w[2] \in Nat /\ w[2] < c /\ c \in Nat
      /\ p \in Nat /\ Scale[w[1]] = c * p /\ SlotOf(w, k) = k + w[2] * p
  BY WorkerPair, Share, ConcurrencyAssumption DEF Turns
<1>2. k \in 0 .. (p - 1)
  BY DEF Turns
<1> HIDE DEF p, c
<1>3. k + w[2] * p \in 0 .. (c * p - 1)
  BY <1>1, <1>2, QuotientBelow
<1>4. SlotOf(w, k) \in Slots(w[1])
  BY <1>1, <1>3 DEF Slots
<1> QED
  BY <1>1, <1>4 DEF Emitter

(* ... no two turns are the same slot ...                                    *)
LEMMA TurnsDiffer ==
    ASSUME NEW w \in Worker, NEW k \in Turns(w),
           NEW v \in Worker, NEW l \in Turns(v),
           w[1] = v[1], SlotOf(w, k) = SlotOf(v, l)
    PROVE  w = v /\ k = l
<1> DEFINE p == PerWorker(w)
<1>1. /\ p \in Nat /\ w[2] \in Nat /\ v[2] \in Nat /\ p = PerWorker(v)
      /\ SlotOf(w, k) = k + w[2] * p /\ SlotOf(v, l) = l + v[2] * p
  <2>1. p \in Nat /\ w[2] \in Nat /\ v[2] \in Nat
    BY WorkerPair, Share
  <2>2. p = PerWorker(v)
    BY DEF PerWorker
  <2>3. k \in Nat /\ l \in Nat
    BY <2>1, <2>2 DEF Turns
  <2> QED
    BY <2>1, <2>2, <2>3, Share
<1>2. k \in 0 .. (p - 1) /\ l \in 0 .. (p - 1)
  BY <1>1 DEF Turns
<1> HIDE DEF p
<1>3. PICK x \in Nat, y \in Nat : x = w[2] /\ y = v[2]
  BY <1>1
<1>4. p \in Nat /\ k + x * p = l + y * p
  BY <1>1, <1>3
<1>5. x = y /\ k = l
  BY <1>2, <1>4, QuotientUnique
<1>6. w = <<w[1], w[2]>> /\ v = <<v[1], v[2]>>
  BY WorkerPair
<1> QED
  BY <1>3, <1>5, <1>6, Zenon

(* ... and every slot of a scenario with workers is a turn of one of them.   *)
LEMMA TurnOfSlot ==
    ASSUME NEW s \in Scenario, Concurrency[s] # 0, NEW slot \in Slots(s)
    PROVE  \E w \in Worker : \E k \in Turns(w) :
               w[1] = s /\ slot = SlotOf(w, k)
<1> DEFINE c == Concurrency[s]
           p == PerWorker(<<s, 0>>)
<1>1. c \in Nat \ {0} /\ <<s, 0>> \in Worker
  <2>1. c \in Nat \ {0}
    BY ConcurrencyAssumption
  <2>2. 0 \in Nat /\ 0 < c
    BY <2>1
  <2> QED
    BY <2>1, <2>2, PairWorker
<1>2. p \in Nat /\ Scale[s] = c * p
  BY <1>1, Share
<1>3. slot \in Nat /\ slot < c * p
  <2>1. Scale[s] \in Nat
    BY ScaleAssumption
  <2> QED
    BY <1>2, <2>1 DEF Slots
<1>4. \A n \in Nat : PerWorker(<<s, n>>) = p
  BY DEF PerWorker
<1> HIDE DEF c, p
<1>5. p # 0
  BY <1>1, <1>2, <1>3
<1> DEFINE n == slot \div p
           k == slot % p
<1>6. slot = p * n + k /\ n \in Nat /\ k \in 0 .. (p - 1)
  BY <1>2, <1>3, <1>5, DivModSum
<1> HIDE DEF n, k
<1>7. n < c
  <2>1. SUFFICES ASSUME n >= c PROVE FALSE
    BY <1>1, <1>6
  <2>2. PICK d \in Nat : n = c + d
    BY <1>1, <1>6, <2>1
  <2>3. PICK dp \in Nat : dp = p * d
    BY <1>2
  <2>4. PICK cp \in Nat : cp = c * p
    BY <1>1, <1>2
  <2>5. p * n = cp + dp
    BY <1>1, <1>2, <2>2, <2>3, <2>4
  <2> QED
    BY <1>2, <1>3, <1>6, <2>4, <2>5
<1>8. <<s, n>> \in Worker
  BY <1>6, <1>7, PairWorker DEF c
<1>9. k \in Turns(<<s, n>>)
  BY <1>4, <1>6 DEF Turns
<1>10. SlotOf(<<s, n>>, k) = k + n * p
  <2>1. k \in Nat
    BY <1>6
  <2> QED
    BY <1>4, <1>6, <1>8, <2>1, Share
<1>11. slot = SlotOf(<<s, n>>, k)
  BY <1>2, <1>6, <1>10
<1> QED
  BY <1>8, <1>9, <1>11

-----------------------------------------------------------------------------
(* The inductive invariant                                                   *)

(* What the collector and the ticker do, and stuttering, leaves the          *)
(* generator goroutine and the workers where they are.                       *)
LEMMA CollectorSteps ==
    ASSUME \/ CancelParent \/ Shutdown \/ ShutdownReturns
           \/ TickerFires \/ Terminated \/ UNCHANGED vars
    PROVE  UNCHANGED <<pc, scn, i, interval, wpc, j, wg, sent, progress,
                       exitReported>>
  BY DEF CancelParent, Shutdown, ShutdownReturns, TickerFires, Terminated,
         vars, mainVars, workerVars, countVars

(* Every step keeps the loop a scenario is in: inline without workers,       *)
(* spawning with them.                                                       *)
LEMMA ModeStep ==
    ASSUME RoundsInv, [Next]_vars
    PROVE  ModeInv'
<1>1. pc \in MainPC /\ scn \in 1 .. (NumScenarios + 1) /\ ModeInv
  BY DEF RoundsInv, BarrierInv, TypeOK, MainTypeOK
<1>2. CASE Start
  BY <1>1, <1>2
     DEF Start, ModeInv, InlinePC, MainPC, workerVars, mainVars, countVars,
         churnVars, envVars
<1>3. CASE LoopCheck
  BY <1>1, <1>3
     DEF LoopCheck, ModeInv, InlinePC, MainPC, workerVars, mainVars,
         countVars, churnVars, envVars
<1>4. CASE Pace
  BY <1>1, <1>4
     DEF Pace, ModeInv, InlinePC, MainPC, workerVars, mainVars, countVars,
         churnVars, envVars
<1>5. CASE ReportExit
  BY <1>1, <1>5
     DEF ReportExit, ModeInv, InlinePC, MainPC, workerVars, mainVars,
         countVars, churnVars, envVars
<1>6. CASE AdvanceTemplate
  BY <1>1, <1>6
     DEF AdvanceTemplate, ModeInv, InlinePC, MainPC, workerVars, mainVars,
         countVars, churnVars, envVars
<1>7. CASE AllScenariosStarted
  BY <1>1, <1>7
     DEF AllScenariosStarted, ModeInv, InlinePC, MainPC, workerVars, mainVars,
         countVars, churnVars, envVars
<1>8. CASE EmitInline
  BY <1>1, <1>8
     DEF EmitInline, ModeInv, InlinePC, MainPC, workerVars, mainVars,
         countVars, churnVars, envVars
<1>9. CASE LoadDataPoints
  BY <1>1, <1>9
     DEF LoadDataPoints, ModeInv, InlinePC, MainPC, workerVars, mainVars,
         countVars, churnVars, envVars
<1>10. CASE StoreDataPoints
  BY <1>1, <1>10
     DEF StoreDataPoints, ModeInv, InlinePC, MainPC, workerVars, mainVars,
         countVars, churnVars, envVars
<1>11. CASE InlineDone
  BY <1>1, <1>11
     DEF InlineDone, ModeInv, InlinePC, MainPC, workerVars, mainVars,
         countVars, churnVars, envVars
<1>12. CASE SpawnWorker
  BY <1>1, <1>12
     DEF SpawnWorker, ModeInv, InlinePC, MainPC, workerVars, mainVars,
         countVars, churnVars, envVars
<1>13. CASE SpawnDone
  BY <1>1, <1>13
     DEF SpawnDone, ModeInv, InlinePC, MainPC, workerVars, mainVars,
         countVars, churnVars, envVars
<1>14. CASE WaitForWorkers
  BY <1>1, <1>14
     DEF WaitForWorkers, ModeInv, InlinePC, MainPC, workerVars, mainVars,
         countVars, churnVars, envVars
<1>15. CASE ApplyChurn
  BY <1>1, <1>15
     DEF ApplyChurn, ModeInv, InlinePC, MainPC, workerVars, mainVars,
         countVars, churnVars, envVars
<1>16. CASE ChurnDone
  BY <1>1, <1>16
     DEF ChurnDone, ModeInv, InlinePC, MainPC, workerVars, mainVars,
         countVars, churnVars, envVars
<1>17. ASSUME NEW v \in Worker, WorkerEmit(v)
      PROVE  ModeInv'
  BY <1>1, <1>17
     DEF WorkerEmit, ModeInv, InlinePC, MainPC, workerVars, mainVars,
         countVars, churnVars, envVars
<1>18. ASSUME NEW v \in Worker, WorkerCount(v)
      PROVE  ModeInv'
  BY <1>1, <1>18
     DEF WorkerCount, ModeInv, InlinePC, MainPC, workerVars, mainVars,
         countVars, churnVars, envVars
<1>19. ASSUME NEW v \in Worker, WorkerDone(v)
      PROVE  ModeInv'
  BY <1>1, <1>19
     DEF WorkerDone, ModeInv, InlinePC, MainPC, workerVars, mainVars,
         countVars, churnVars, envVars
<1>20. CASE UNCHANGED <<pc, scn, i, interval, wpc, j, wg, sent, progress,
                       exitReported>>
  BY <1>1, <1>20
     DEF ModeInv, InlinePC, MainPC, workerVars, mainVars, countVars,
         churnVars, envVars
<1> QED
  BY <1>2, <1>3, <1>4, <1>5, <1>6, <1>7, <1>8, <1>9, <1>10, <1>11, <1>12,
     <1>13, <1>14, <1>15, <1>16, <1>17, <1>18, <1>19, <1>20,
     CollectorSteps
     DEF Next, MainNext, WorkerNext

(* A turn of a worker is emitted exactly when the worker has taken it.        *)
LEMMA WorkersSentStep ==
    ASSUME RoundsInv, [Next]_vars, pc' # "returned",
           NEW w \in Worker, NEW k \in Turns(w)
    PROVE  sent'[<<w[1], SlotOf(w, k)>>] = IF TurnTaken(w, k)' THEN 1 ELSE 0
<1> DEFINE e == <<w[1], SlotOf(w, k)>>
           Goal == sent'[e] = IF TurnTaken(w, k)' THEN 1 ELSE 0
<1> SUFFICES Goal
  OBVIOUS
<1>1. /\ pc \in MainPC /\ scn \in Int /\ i \in Nat
      /\ wpc[w] \in {"idle", "emit", "count"} /\ j[w] \in Nat
      /\ wpc \in [Worker -> {"idle", "emit", "count"}]
      /\ j \in [Worker -> Nat] /\ sent \in [Emitter -> Nat]
  BY NumScenariosAssumption
     DEF RoundsInv, BarrierInv, TypeOK, MainTypeOK, WorkerTypeOK, DataTypeOK
<1>2. /\ w[1] \in Scenario /\ w[1] \in Int /\ w[1] >= 1
      /\ w[2] \in Nat /\ w[2] \in Int /\ k \in Nat
      /\ Concurrency[w[1]] \in Nat /\ w[2] < Concurrency[w[1]]
  BY WorkerPair, Share, ConcurrencyAssumption DEF Turns, Scenario
<1>3. /\ wpc[w] # "idle" => Spawned(w)
      /\ wg = {} => wpc[w] = "idle"
  BY DEF RoundsInv, BarrierInv, WaitGroupInv
<1>4. pc # "returned" => sent[e] = IF TurnTaken(w, k) THEN 1 ELSE 0
  BY DEF RoundsInv, SentInv, WorkersSentInv
<1>5. e \in Emitter
  BY SlotOfTurn
<1> HIDE DEF e
<1>6. ASSUME sent' = sent, pc # "returned",
             TurnTaken(w, k)' <=> TurnTaken(w, k)
      PROVE  Goal
  BY <1>4, <1>6
<1> HIDE DEF Goal
<1>7. CASE Start
  <2>1. sent' = sent /\ pc # "returned"
    BY <1>7 DEF Start
  <2>2. TurnTaken(w, k)' <=> TurnTaken(w, k)
    BY <1>7, <1>1, <1>2
       DEF Start, TurnTaken, Spawned, Producing, workerVars
  <2> QED
    BY <1>6, <2>1, <2>2
<1>8. CASE LoopCheck
  <2>1. sent' = sent /\ pc # "returned"
    BY <1>8 DEF LoopCheck
  <2>2. TurnTaken(w, k)' <=> TurnTaken(w, k)
    BY <1>8, <1>1, <1>2
       DEF LoopCheck, TurnTaken, Spawned, Producing, workerVars
  <2> QED
    BY <1>6, <2>1, <2>2
<1>9. CASE Pace
  <2>1. pc' = "check" /\ sent' = NothingSent
    BY <1>9 DEF Pace
  <2>2. ~TurnTaken(w, k)'
    BY <2>1 DEF TurnTaken, Spawned, Producing
  <2>3. sent'[e] = 0
    BY <1>5, <2>1 DEF NothingSent
  <2> QED
    BY <2>2, <2>3 DEF Goal
<1>10. CASE ReportExit
  BY <1>10 DEF ReportExit
<1>11. CASE AdvanceTemplate
  <2>1. sent' = sent /\ pc # "returned"
    BY <1>11 DEF AdvanceTemplate
  <2>2. TurnTaken(w, k)' <=> TurnTaken(w, k)
    BY <1>11, <1>1, <1>2
       DEF AdvanceTemplate, TurnTaken, Spawned, Producing, workerVars
  <2> QED
    BY <1>6, <2>1, <2>2
<1>12. CASE AllScenariosStarted
  <2>1. sent' = sent /\ pc # "returned"
    BY <1>12 DEF AllScenariosStarted
  <2>2. TurnTaken(w, k)' <=> TurnTaken(w, k)
    BY <1>12, <1>1, <1>2
       DEF AllScenariosStarted, TurnTaken, Spawned, Producing, workerVars
  <2> QED
    BY <1>6, <2>1, <2>2
<1>13. CASE EmitInline
  <2>1. w[1] # scn
    BY <1>13, <1>2 DEF EmitInline, RoundsInv, ModeInv, InlinePC
  <2>2. e # <<scn, i>>
    BY <2>1 DEF e
  <2>3. sent' = [sent EXCEPT ![<<scn, i>>] = @ + 1]
    BY <1>13 DEF EmitInline
  <2>4. sent'[e] = sent[e]
    BY <1>1, <1>5, <2>2, <2>3
  <2>5. TurnTaken(w, k)' <=> TurnTaken(w, k)
    BY <1>13 DEF EmitInline, TurnTaken, Spawned, Producing, workerVars
  <2>6. pc # "returned"
    BY <1>13 DEF EmitInline
  <2> QED
    BY <1>4, <2>4, <2>5, <2>6 DEF Goal
<1>14. CASE LoadDataPoints
  <2>1. sent' = sent /\ pc # "returned"
    BY <1>14 DEF LoadDataPoints
  <2>2. TurnTaken(w, k)' <=> TurnTaken(w, k)
    BY <1>14, <1>1, <1>2
       DEF LoadDataPoints, TurnTaken, Spawned, Producing, workerVars
  <2> QED
    BY <1>6, <2>1, <2>2
<1>15. CASE StoreDataPoints
  <2>1. sent' = sent /\ pc # "returned"
    BY <1>15 DEF StoreDataPoints
  <2>2. TurnTaken(w, k)' <=> TurnTaken(w, k)
    BY <1>15, <1>1, <1>2
       DEF StoreDataPoints, TurnTaken, Spawned, Producing, workerVars
  <2> QED
    BY <1>6, <2>1, <2>2
<1>16. CASE InlineDone
  <2>1. w[1] # scn
    BY <1>16, <1>2 DEF InlineDone, RoundsInv, ModeInv, InlinePC
  <2>2. sent' = sent /\ pc # "returned"
    BY <1>16 DEF InlineDone
  <2>3. w[1] < scn + 1 <=> w[1] < scn
    BY <1>1, <1>2, <2>1
  <2>4. TurnTaken(w, k)' <=> TurnTaken(w, k)
    BY <1>16, <2>3
       DEF InlineDone, TurnTaken, Spawned, Producing, workerVars
  <2> QED
    BY <1>6, <2>2, <2>4
<1>17. CASE SpawnWorker
  <2>1. /\ sent' = sent /\ pc = "spawn" /\ pc' = "spawn"
        /\ scn' = scn /\ i' = i + 1
    BY <1>17 DEF SpawnWorker
  <2>2. CASE w = <<scn, i>>
    <3>1. w[1] = scn /\ w[2] = i
      BY <2>2
    <3>2. ~TurnTaken(w, k)
      BY <1>1, <2>1, <3>1 DEF TurnTaken, Spawned
    <3>3. wpc'[w] = "emit" /\ j'[w] = 0
      BY <1>17, <1>1, <2>2 DEF SpawnWorker
    <3>4. ~TurnTaken(w, k)'
      BY <1>2, <2>1, <3>3 DEF TurnTaken
    <3> QED
      BY <1>6, <2>1, <3>2, <3>4
  <2>3. CASE w # <<scn, i>>
    <3>1. wpc'[w] = wpc[w] /\ j'[w] = j[w]
      BY <1>17, <1>1, <2>3 DEF SpawnWorker
    <3>2. w[1] = scn => w[2] # i
      BY <2>3, WorkerPair
    <3>3. w[1] = scn => (w[2] < i + 1 <=> w[2] < i)
      BY <1>1, <1>2, <3>2
    <3>4. TurnTaken(w, k)' <=> TurnTaken(w, k)
      BY <2>1, <3>1, <3>3 DEF TurnTaken, Spawned
    <3> QED
      BY <1>6, <2>1, <3>4
  <2> QED
    BY <2>2, <2>3
<1>18. CASE SpawnDone
  <2>1. sent' = sent /\ pc # "returned"
    BY <1>18 DEF SpawnDone
  <2>2. w[1] < scn + 1 <=> w[1] < scn \/ w[1] = scn
    BY <1>1, <1>2
  <2>3. w[1] = scn => w[2] < i
    BY <1>18, <1>1, <1>2 DEF SpawnDone
  <2>4. TurnTaken(w, k)' <=> TurnTaken(w, k)
    BY <1>18, <2>2, <2>3
       DEF SpawnDone, TurnTaken, Spawned, Producing, workerVars
  <2> QED
    BY <1>6, <2>1, <2>4
<1>19. CASE WaitForWorkers
  <2>1. sent' = sent /\ pc = "wait" /\ pc' = "churn" /\ wg = {}
    BY <1>19 DEF WaitForWorkers
  <2>2. w[1] < scn
    <3>1. scn \notin Scenario /\ scn \in 1 .. (NumScenarios + 1)
      BY <2>1 DEF RoundsInv, ModeInv, BarrierInv, TypeOK, MainTypeOK
    <3> QED
      BY <1>2, <3>1, NumScenariosAssumption DEF Scenario
  <2>3. TurnTaken(w, k) /\ TurnTaken(w, k)'
    BY <1>3, <2>1, <2>2 DEF TurnTaken, Spawned, Producing
  <2> QED
    BY <1>6, <2>1, <2>3
<1>20. CASE ApplyChurn
  <2>1. sent' = sent /\ pc # "returned"
    BY <1>20 DEF ApplyChurn
  <2>2. TurnTaken(w, k)' <=> TurnTaken(w, k)
    BY <1>20, <1>1, <1>2
       DEF ApplyChurn, TurnTaken, Spawned, Producing, workerVars
  <2> QED
    BY <1>6, <2>1, <2>2
<1>21. CASE ChurnDone
  <2>1. sent' = sent /\ pc # "returned"
    BY <1>21 DEF ChurnDone
  <2>2. TurnTaken(w, k)' <=> TurnTaken(w, k)
    BY <1>21, <1>1, <1>2
       DEF ChurnDone, TurnTaken, Spawned, Producing, workerVars
  <2> QED
    BY <1>6, <2>1, <2>2
<1>22. ASSUME NEW v \in Worker, WorkerEmit(v)
      PROVE  Goal
  <2> DEFINE x == <<v[1], SlotOf(v, j[v])>>
  <2>1. /\ wpc[v] = "emit" /\ j[v] \in Turns(v)
        /\ sent' = [sent EXCEPT ![x] = @ + 1]
        /\ wpc' = [wpc EXCEPT ![v] = "count"] /\ j' = j
        /\ UNCHANGED <<pc, scn, i>>
    BY <1>22, <1>1, Share DEF WorkerEmit, mainVars, Turns
  <2>2. Spawned(v) /\ pc \in Producing
    BY <2>1 DEF RoundsInv, BarrierInv, WaitGroupInv, Spawned, Producing
  <2>3. x \in Emitter
    BY <2>1, SlotOfTurn
  <2>4. CASE w = v /\ k = j[v]
    <3>1. e = x
      BY <2>4 DEF e
    <3>2. ~TurnTaken(w, k) /\ TurnTaken(w, k)'
      BY <1>1, <1>2, <2>1, <2>2, <2>4 DEF TurnTaken, Spawned, Producing
    <3>3. sent[e] = 0
      BY <1>4, <2>2, <3>2 DEF Producing
    <3>4. sent'[e] = 1
      BY <1>1, <1>5, <2>1, <3>1, <3>3
    <3> QED
      BY <3>2, <3>4 DEF Goal
  <2>5. CASE ~(w = v /\ k = j[v])
    <3>1. e # x
      BY <2>1, <2>5, TurnsDiffer DEF e
    <3> HIDE DEF x
    <3>2. sent'[e] = sent[e]
      BY <1>1, <1>5, <2>1, <3>1
    <3>3. TurnTaken(w, k)' <=> TurnTaken(w, k)
      <4>1. CASE w = v
        <5>1. wpc'[w] = "count" /\ wpc[w] = "emit" /\ k # j[w]
          BY <1>1, <2>1, <2>5, <4>1
        <5> QED
          BY <2>1, <5>1 DEF TurnTaken, Spawned
      <4>2. CASE w # v
        <5>1. wpc'[w] = wpc[w]
          BY <1>1, <2>1, <4>2
        <5> QED
          BY <2>1, <5>1 DEF TurnTaken, Spawned
      <4> QED
        BY <4>1, <4>2
    <3> QED
      BY <1>4, <2>2, <3>2, <3>3 DEF Goal, Producing
  <2> QED
    BY <2>4, <2>5
<1>23. ASSUME NEW v \in Worker, WorkerCount(v)
      PROVE  Goal
  <2>1. /\ wpc[v] = "count" /\ j' = [j EXCEPT ![v] = @ + 1]
        /\ wpc' = [wpc EXCEPT ![v] = "emit"]
        /\ UNCHANGED <<pc, scn, i, sent>>
    BY <1>23 DEF WorkerCount, mainVars
  <2>2. pc # "returned"
    BY <2>1 DEF RoundsInv, BarrierInv, WaitGroupInv, Spawned, Producing
  <2>3. TurnTaken(w, k)' <=> TurnTaken(w, k)
    <3>1. CASE w = v
      <4>1. /\ wpc[w] = "count" /\ wpc'[w] = "emit"
            /\ j'[w] = j[w] + 1
        BY <1>1, <2>1, <3>1
      <4>2. k < j[w] + 1 <=> k < j[w] \/ k = j[w]
        BY <1>1, <1>2
      <4> QED
        BY <2>1, <4>1, <4>2 DEF TurnTaken, Spawned
    <3>2. CASE w # v
      <4>1. wpc'[w] = wpc[w] /\ j'[w] = j[w]
        BY <1>1, <2>1, <3>2
      <4> QED
        BY <2>1, <4>1 DEF TurnTaken, Spawned
    <3> QED
      BY <3>1, <3>2
  <2> QED
    BY <1>6, <2>1, <2>2, <2>3
<1>24. ASSUME NEW v \in Worker, WorkerDone(v)
      PROVE  Goal
  <2>1. /\ wpc[v] = "emit" /\ j[v] >= PerWorker(v) /\ j' = j
        /\ wpc' = [wpc EXCEPT ![v] = "idle"]
        /\ UNCHANGED <<pc, scn, i, sent>>
    BY <1>24 DEF WorkerDone, mainVars
  <2>2. pc # "returned"
    BY <2>1 DEF RoundsInv, BarrierInv, WaitGroupInv, Spawned, Producing
  <2>3. TurnTaken(w, k)' <=> TurnTaken(w, k)
    <3>1. CASE w = v
      <4>1. wpc[w] = "emit" /\ wpc'[w] = "idle" /\ j[w] >= PerWorker(w)
        BY <1>1, <2>1, <3>1
      <4>2. k < j[w]
        BY <1>1, <4>1, Share DEF Turns
      <4> QED
        BY <2>1, <4>1, <4>2 DEF TurnTaken, Spawned
    <3>2. CASE w # v
      <4>1. wpc'[w] = wpc[w]
        BY <1>1, <2>1, <3>2
      <4> QED
        BY <2>1, <4>1 DEF TurnTaken, Spawned
    <3> QED
      BY <3>1, <3>2
  <2> QED
    BY <1>6, <2>1, <2>2, <2>3
<1>25. CASE UNCHANGED <<pc, scn, i, interval, wpc, j, wg, sent, progress,
                        exitReported>>
  <2>1. TurnTaken(w, k)' <=> TurnTaken(w, k)
    BY <1>25 DEF TurnTaken, Spawned
  <2> QED
    BY <1>6, <2>1, <1>25
<1> QED
  BY <1>7, <1>8, <1>9, <1>10, <1>11, <1>12, <1>13, <1>14, <1>15, <1>16,
     <1>17, <1>18, <1>19, <1>20, <1>21, <1>22, <1>23, <1>24, <1>25,
     CollectorSteps
     DEF Next, MainNext, WorkerNext

(* A slot of a scenario without workers is emitted exactly when the loop of  *)
(* the goroutine has passed it.                                              *)
LEMMA InlineSentStep ==
    ASSUME RoundsInv, [Next]_vars, pc' # "returned",
           NEW s \in Scenario, Concurrency[s] = 0, NEW slot \in Slots(s)
    PROVE  sent'[<<s, slot>>] = IF SlotTaken(s, slot)' THEN 1 ELSE 0
<1> DEFINE e == <<s, slot>>
           Goal == sent'[e] = IF SlotTaken(s, slot)' THEN 1 ELSE 0
<1> SUFFICES Goal
  OBVIOUS
<1>1. /\ pc \in MainPC /\ scn \in Int /\ i \in Nat
      /\ sent \in [Emitter -> Nat]
  BY NumScenariosAssumption
     DEF RoundsInv, BarrierInv, TypeOK, MainTypeOK, DataTypeOK
<1>2. /\ s \in Int /\ s >= 1 /\ slot \in Nat /\ slot < Scale[s]
      /\ Scale[s] \in Nat
  BY ScaleAssumption DEF Slots, Scenario
<1>3. pc # "returned" => sent[e] = IF SlotTaken(s, slot) THEN 1 ELSE 0
  BY DEF RoundsInv, SentInv, InlineSentInv
<1>4. e \in Emitter
  BY DEF Emitter
<1>5. ASSUME sent' = sent, pc # "returned",
             SlotTaken(s, slot)' <=> SlotTaken(s, slot)
      PROVE  Goal
  BY <1>3, <1>5
<1> HIDE DEF e, Goal
<1>6. CASE Start
  <2>1. sent' = sent /\ pc # "returned"
    BY <1>6 DEF Start
  <2>2. SlotTaken(s, slot)' <=> SlotTaken(s, slot)
    BY <1>6, <1>1, <1>2
       DEF Start, SlotTaken, Producing, InlinePC
  <2> QED
    BY <1>5, <2>1, <2>2
<1>7. CASE LoopCheck
  <2>1. sent' = sent /\ pc # "returned"
    BY <1>7 DEF LoopCheck
  <2>2. SlotTaken(s, slot)' <=> SlotTaken(s, slot)
    BY <1>7, <1>1, <1>2
       DEF LoopCheck, SlotTaken, Producing, InlinePC
  <2> QED
    BY <1>5, <2>1, <2>2
<1>8. CASE Pace
  <2>1. pc' = "check" /\ sent' = NothingSent
    BY <1>8 DEF Pace
  <2>2. ~SlotTaken(s, slot)'
    BY <2>1 DEF SlotTaken, Producing, InlinePC
  <2>3. sent'[e] = 0
    BY <1>4, <2>1 DEF NothingSent
  <2> QED
    BY <2>2, <2>3 DEF Goal
<1>9. CASE ReportExit
  BY <1>9 DEF ReportExit
<1>10. CASE AdvanceTemplate
  <2>1. sent' = sent /\ pc # "returned"
    BY <1>10 DEF AdvanceTemplate
  <2>2. SlotTaken(s, slot)' <=> SlotTaken(s, slot)
    BY <1>10, <1>1, <1>2
       DEF AdvanceTemplate, SlotTaken, Producing, InlinePC
  <2> QED
    BY <1>5, <2>1, <2>2
<1>11. CASE AllScenariosStarted
  <2>1. sent' = sent /\ pc # "returned"
    BY <1>11 DEF AllScenariosStarted
  <2>2. SlotTaken(s, slot)' <=> SlotTaken(s, slot)
    BY <1>11, <1>1, <1>2
       DEF AllScenariosStarted, SlotTaken, Producing, InlinePC
  <2> QED
    BY <1>5, <2>1, <2>2
<1>12. CASE EmitInline
  <2> DEFINE x == <<scn, i>>
  <2>1. /\ sent' = [sent EXCEPT ![x] = @ + 1] /\ pc = "inline" /\ pc' = "load"
        /\ scn' = scn /\ i' = i
    BY <1>12 DEF EmitInline
  <2>2. CASE s = scn /\ slot = i
    <3>1. e = x
      BY <2>2 DEF e
    <3>2. ~SlotTaken(s, slot) /\ SlotTaken(s, slot)'
      BY <1>1, <1>2, <2>1, <2>2 DEF SlotTaken, Producing, InlinePC
    <3>3. sent[e] = 0
      BY <1>3, <2>1, <3>2
    <3>4. sent'[e] = 1
      BY <1>1, <1>4, <2>1, <3>1, <3>3
    <3> QED
      BY <3>2, <3>4 DEF Goal
  <2>3. CASE ~(s = scn /\ slot = i)
    <3>1. e # x
      BY <2>3 DEF e
    <3> HIDE DEF x
    <3>2. sent'[e] = sent[e]
      BY <1>1, <1>4, <2>1, <3>1
    <3>3. SlotTaken(s, slot)' <=> SlotTaken(s, slot)
      BY <2>1, <2>3 DEF SlotTaken, Producing, InlinePC
    <3> QED
      BY <1>3, <2>1, <3>2, <3>3 DEF Goal
  <2> QED
    BY <2>2, <2>3
<1>13. CASE LoadDataPoints
  <2>1. sent' = sent /\ pc # "returned"
    BY <1>13 DEF LoadDataPoints
  <2>2. SlotTaken(s, slot)' <=> SlotTaken(s, slot)
    BY <1>13, <1>1, <1>2
       DEF LoadDataPoints, SlotTaken, Producing, InlinePC
  <2> QED
    BY <1>5, <2>1, <2>2
<1>14. CASE StoreDataPoints
  <2>1. sent' = sent /\ pc # "returned"
    BY <1>14 DEF StoreDataPoints
  <2>2. SlotTaken(s, slot)' <=> SlotTaken(s, slot)
    BY <1>14, <1>1, <1>2
       DEF StoreDataPoints, SlotTaken, Producing, InlinePC
  <2> QED
    BY <1>5, <2>1, <2>2
<1>15. CASE InlineDone
  <2>1. sent' = sent /\ pc # "returned"
    BY <1>15 DEF InlineDone
  <2>2. s < scn + 1 <=> s < scn \/ s = scn
    BY <1>1, <1>2
  <2>3. s = scn => slot < i
    BY <1>15, <1>1, <1>2 DEF InlineDone
  <2>4. SlotTaken(s, slot)' <=> SlotTaken(s, slot)
    BY <1>15, <2>2, <2>3 DEF InlineDone, SlotTaken, Producing, InlinePC
  <2> QED
    BY <1>5, <2>1, <2>4
<1>16. CASE SpawnWorker
  <2>1. sent' = sent /\ pc # "returned"
    BY <1>16 DEF SpawnWorker
  <2>2. SlotTaken(s, slot)' <=> SlotTaken(s, slot)
    BY <1>16, <1>1, <1>2
       DEF SpawnWorker, SlotTaken, Producing, InlinePC
  <2> QED
    BY <1>5, <2>1, <2>2
<1>17. CASE SpawnDone
  <2>1. s # scn
    BY <1>17 DEF SpawnDone, RoundsInv, ModeInv
  <2>2. sent' = sent /\ pc # "returned"
    BY <1>17 DEF SpawnDone
  <2>3. s < scn + 1 <=> s < scn
    BY <1>1, <1>2, <2>1
  <2>4. SlotTaken(s, slot)' <=> SlotTaken(s, slot)
    BY <1>17, <2>3 DEF SpawnDone, SlotTaken, Producing, InlinePC
  <2> QED
    BY <1>5, <2>2, <2>4
<1>18. CASE WaitForWorkers
  <2>1. sent' = sent /\ pc = "wait" /\ pc' = "churn"
    BY <1>18 DEF WaitForWorkers
  <2>2. s < scn
    <3>1. scn \notin Scenario /\ scn \in 1 .. (NumScenarios + 1)
      BY <2>1 DEF RoundsInv, ModeInv, BarrierInv, TypeOK, MainTypeOK
    <3> QED
      BY <1>2, <3>1, NumScenariosAssumption DEF Scenario
  <2>3. SlotTaken(s, slot) /\ SlotTaken(s, slot)'
    BY <2>1, <2>2 DEF SlotTaken, Producing
  <2> QED
    BY <1>5, <2>1, <2>3
<1>19. CASE ApplyChurn
  <2>1. sent' = sent /\ pc # "returned"
    BY <1>19 DEF ApplyChurn
  <2>2. SlotTaken(s, slot)' <=> SlotTaken(s, slot)
    BY <1>19, <1>1, <1>2
       DEF ApplyChurn, SlotTaken, Producing, InlinePC
  <2> QED
    BY <1>5, <2>1, <2>2
<1>20. CASE ChurnDone
  <2>1. sent' = sent /\ pc # "returned"
    BY <1>20 DEF ChurnDone
  <2>2. SlotTaken(s, slot)' <=> SlotTaken(s, slot)
    BY <1>20, <1>1, <1>2
       DEF ChurnDone, SlotTaken, Producing, InlinePC
  <2> QED
    BY <1>5, <2>1, <2>2
<1>21. ASSUME NEW v \in Worker, WorkerEmit(v)
      PROVE  Goal
  <2> DEFINE x == <<v[1], SlotOf(v, j[v])>>
  <2>1. /\ wpc[v] = "emit" /\ sent' = [sent EXCEPT ![x] = @ + 1]
        /\ UNCHANGED <<pc, scn, i>>
    BY <1>21 DEF WorkerEmit, mainVars
  <2>2. pc \in Producing
    BY <2>1 DEF RoundsInv, BarrierInv, WaitGroupInv, Spawned, Producing
  <2>3. s # v[1]
    <3>1. v[2] \in Nat /\ v[2] \in 0 .. (Concurrency[v[1]] - 1)
      BY WorkerPair
    <3> QED
      BY <3>1
  <2>4. e # x
    BY <2>3 DEF e
  <2> HIDE DEF x
  <2>5. sent'[e] = sent[e]
    BY <1>1, <1>4, <2>1, <2>4
  <2>6. SlotTaken(s, slot)' <=> SlotTaken(s, slot)
    BY <2>1 DEF SlotTaken
  <2> QED
    BY <1>3, <2>2, <2>5, <2>6 DEF Goal, Producing
<1>22. ASSUME NEW v \in Worker, WorkerCount(v)
      PROVE  Goal
  <2>1. wpc[v] = "count" /\ UNCHANGED <<pc, scn, i, sent>>
    BY <1>22 DEF WorkerCount, mainVars
  <2>2. pc # "returned"
    BY <2>1 DEF RoundsInv, BarrierInv, WaitGroupInv, Spawned, Producing
  <2>3. SlotTaken(s, slot)' <=> SlotTaken(s, slot)
    BY <2>1 DEF SlotTaken
  <2> QED
    BY <1>5, <2>1, <2>2, <2>3
<1>23. ASSUME NEW v \in Worker, WorkerDone(v)
      PROVE  Goal
  <2>1. wpc[v] = "emit" /\ UNCHANGED <<pc, scn, i, sent>>
    BY <1>23 DEF WorkerDone, mainVars
  <2>2. pc # "returned"
    BY <2>1 DEF RoundsInv, BarrierInv, WaitGroupInv, Spawned, Producing
  <2>3. SlotTaken(s, slot)' <=> SlotTaken(s, slot)
    BY <2>1 DEF SlotTaken
  <2> QED
    BY <1>5, <2>1, <2>2, <2>3
<1>24. CASE UNCHANGED <<pc, scn, i, interval, wpc, j, wg, sent, progress,
                        exitReported>>
  <2>1. SlotTaken(s, slot)' <=> SlotTaken(s, slot)
    BY <1>24 DEF SlotTaken
  <2> QED
    BY <1>5, <2>1, <1>24
<1> QED
  BY <1>6, <1>7, <1>8, <1>9, <1>10, <1>11, <1>12, <1>13, <1>14, <1>15,
     <1>16, <1>17, <1>18, <1>19, <1>20, <1>21, <1>22, <1>23, <1>24,
     CollectorSteps
     DEF Next, MainNext, WorkerNext

(* At the end of a round everything is emitted, before its first emission    *)
(* nothing is.                                                               *)
LEMMA RoundBoundary ==
    ASSUME RoundsInv
    PROVE  /\ pc \in {"churn", "pace"} => sent = EverythingSent
           /\ pc \in {"created", "check", "exiting"} => sent = NothingSent
<1>1. ASSUME NEW n \in {0, 1}, pc # "returned",
             \A w \in Worker : \A k \in Turns(w) : TurnTaken(w, k) <=> n = 1,
             \A s \in Scenario : \A slot \in Slots(s) :
                 SlotTaken(s, slot) <=> n = 1
      PROVE  sent = [e \in Emitter |-> n]
  <2>1. ASSUME NEW e \in Emitter
        PROVE  sent[e] = n
    <3>1. PICK s \in Scenario : \E slot \in Slots(s) : e = <<s, slot>>
      BY DEF Emitter
    <3>2. PICK slot \in Slots(s) : e = <<s, slot>>
      BY <3>1
    <3>3. CASE Concurrency[s] = 0
      BY <1>1, <3>2, <3>3 DEF RoundsInv, SentInv, InlineSentInv
    <3>4. CASE Concurrency[s] # 0
      <4>1. PICK w \in Worker :
                \E k \in Turns(w) : w[1] = s /\ slot = SlotOf(w, k)
        BY <3>4, TurnOfSlot
      <4>2. PICK k \in Turns(w) : w[1] = s /\ slot = SlotOf(w, k)
        BY <4>1
      <4>3. sent[<<w[1], SlotOf(w, k)>>] = n
        BY <1>1 DEF RoundsInv, SentInv, WorkersSentInv
      <4> QED
        BY <3>2, <4>2, <4>3
    <3> QED
      BY <3>3, <3>4
  <2>2. sent \in [Emitter -> Nat]
    BY DEF RoundsInv, BarrierInv, TypeOK, DataTypeOK
  <2> QED
    BY <2>1, <2>2
<1>2. ASSUME pc \in {"churn", "pace"}
      PROVE  sent = EverythingSent
  <2>1. sent = [e \in Emitter |-> 1]
    BY <1>1, <1>2 DEF TurnTaken, SlotTaken
  <2> QED
    BY <2>1 DEF EverythingSent
<1>3. ASSUME pc \in {"created", "check", "exiting"}
      PROVE  sent = NothingSent
  <2>1. sent = [e \in Emitter |-> 0]
    BY <1>1, <1>3
       DEF TurnTaken, SlotTaken, Spawned, Producing, InlinePC
  <2> QED
    BY <2>1 DEF NothingSent
<1> QED
  BY <1>2, <1>3

LEMMA RoundsInvInit == Init => RoundsInv
<1> SUFFICES ASSUME Init PROVE RoundsInv
  OBVIOUS
<1>1. ModeInv
  BY DEF Init, ModeInv, InlinePC
<1>2. \A e \in Emitter : sent[e] = 0
  BY DEF Init, NothingSent
<1>3. WorkersSentInv
  <2>1. \A w \in Worker : \A k \in Turns(w) : ~TurnTaken(w, k)
    BY DEF Init, TurnTaken, Spawned, Producing
  <2> QED
    BY <1>2, <2>1, SlotOfTurn DEF WorkersSentInv
<1>4. InlineSentInv
  <2>1. \A s \in Scenario : \A slot \in Slots(s) :
            <<s, slot>> \in Emitter /\ ~SlotTaken(s, slot)
    BY DEF Init, Emitter, SlotTaken, Producing, InlinePC
  <2> QED
    BY <1>2, <2>1 DEF InlineSentInv
<1>5. pc # "returned"
  BY DEF Init
<1> QED
  BY <1>1, <1>3, <1>4, <1>5, BarrierInvInit DEF RoundsInv, SentInv

(* The goroutine returns only between two rounds.                            *)
LEMMA ReturnedStep ==
    ASSUME RoundsInv, [Next]_vars, pc' = "returned"
    PROVE  sent' \in {NothingSent, EverythingSent}
<1>1. CASE Start
  BY <1>1 DEF Start
<1>2. CASE LoopCheck
  BY <1>2, RoundBoundary DEF LoopCheck
<1>3. CASE Pace
  BY <1>3, RoundBoundary DEF Pace
<1>4. CASE ReportExit
  BY <1>4, RoundBoundary DEF ReportExit
<1>5. CASE AdvanceTemplate
  BY <1>5 DEF AdvanceTemplate
<1>6. CASE AllScenariosStarted
  BY <1>6 DEF AllScenariosStarted
<1>7. CASE EmitInline
  BY <1>7 DEF EmitInline
<1>8. CASE LoadDataPoints
  BY <1>8 DEF LoadDataPoints
<1>9. CASE StoreDataPoints
  BY <1>9 DEF StoreDataPoints
<1>10. CASE InlineDone
  BY <1>10 DEF InlineDone
<1>11. CASE SpawnWorker
  BY <1>11 DEF SpawnWorker
<1>12. CASE SpawnDone
  BY <1>12 DEF SpawnDone
<1>13. CASE WaitForWorkers
  BY <1>13 DEF WaitForWorkers
<1>14. CASE ApplyChurn
  BY <1>14 DEF ApplyChurn
<1>15. CASE ChurnDone
  BY <1>15 DEF ChurnDone
<1>16. ASSUME NEW v \in Worker, WorkerEmit(v)
      PROVE  sent' \in {NothingSent, EverythingSent}
  <2>1. wpc[v] = "emit" /\ pc' = pc
    BY <1>16 DEF WorkerEmit, mainVars
  <2> QED
    BY <2>1 DEF RoundsInv, BarrierInv, WaitGroupInv, Spawned, Producing
<1>17. ASSUME NEW v \in Worker, WorkerCount(v)
      PROVE  sent' \in {NothingSent, EverythingSent}
  <2>1. wpc[v] = "count" /\ pc' = pc
    BY <1>17 DEF WorkerCount, mainVars
  <2> QED
    BY <2>1 DEF RoundsInv, BarrierInv, WaitGroupInv, Spawned, Producing
<1>18. ASSUME NEW v \in Worker, WorkerDone(v)
      PROVE  sent' \in {NothingSent, EverythingSent}
  <2>1. wpc[v] = "emit" /\ pc' = pc
    BY <1>18 DEF WorkerDone, mainVars
  <2> QED
    BY <2>1 DEF RoundsInv, BarrierInv, WaitGroupInv, Spawned, Producing
<1>19. CASE UNCHANGED <<pc, scn, i, interval, wpc, j, wg, sent, progress,
                        exitReported>>
  BY <1>19 DEF RoundsInv, SentInv
<1> QED
  BY <1>1, <1>2, <1>3, <1>4, <1>5, <1>6, <1>7, <1>8, <1>9, <1>10, <1>11,
     <1>12, <1>13, <1>14, <1>15, <1>16, <1>17, <1>18, <1>19, CollectorSteps
     DEF Next, MainNext, WorkerNext

LEMMA RoundsInvStep == RoundsInv /\ [Next]_vars => RoundsInv'
<1> SUFFICES ASSUME RoundsInv, [Next]_vars PROVE RoundsInv'
  OBVIOUS
<1>1. BarrierInv'
  BY BarrierInvStep DEF RoundsInv
<1>2. ModeInv'
  BY ModeStep
<1>3. pc' # "returned" => WorkersSentInv'
  <2> SUFFICES ASSUME pc' # "returned", NEW w \in Worker, NEW k \in Turns(w)
               PROVE  sent'[<<w[1], SlotOf(w, k)>>] =
                          IF TurnTaken(w, k)' THEN 1 ELSE 0
    BY DEF WorkersSentInv
  <2> QED
    BY WorkersSentStep
<1>4. pc' # "returned" => InlineSentInv'
  <2> SUFFICES ASSUME pc' # "returned", NEW s \in Scenario,
                      Concurrency[s] = 0, NEW slot \in Slots(s)
               PROVE  sent'[<<s, slot>>] = IF SlotTaken(s, slot)' THEN 1 ELSE 0
    BY DEF InlineSentInv
  <2> QED
    BY InlineSentStep
<1>5. pc' = "returned" => sent' \in {NothingSent, EverythingSent}
  BY ReturnedStep
<1>6. SentInv'
  BY <1>3, <1>4, <1>5 DEF SentInv, NothingSent, EverythingSent
<1> QED
  BY <1>1, <1>2, <1>6 DEF RoundsInv

(* The inductive invariant of the refinement holds of every behaviour.       *)
THEOREM RoundsInvCorrect == Spec => []RoundsInv
  BY RoundsInvInit, RoundsInvStep, PTL DEF Spec

-----------------------------------------------------------------------------
(* The refinement: an emission of the goroutine or of a worker is an Emit,   *)
(* the step of the simulated time a NextRound, the end of the loop or a      *)
(* cancellation a Stop, and every other step leaves Rounds where it is.      *)
LEMMA EmitIsEmit ==
    ASSUME RoundsInv, NEW e \in Emitter, sent[e] = 0, pc \in Producing,
           sent' = [sent EXCEPT ![e] = @ + 1],
           pc' \in Producing, interval' = interval
    PROVE  AbstractRounds!Next
<1>1. sent' = [sent EXCEPT ![e] = 1]
  BY DEF RoundsInv, BarrierInv, TypeOK, DataTypeOK
<1>2. interval < NumIntervals
  BY DEF RoundsInv, BarrierInv, PlacesInv
<1>3. pc \notin {"exiting", "returned"} /\ pc' \notin {"exiting", "returned"}
  BY DEF Producing
<1>4. AbstractRounds!Emit(e)
  BY <1>1, <1>2, <1>3 DEF AbstractRounds!Emit
<1> QED
  BY <1>4 DEF AbstractRounds!Next

LEMMA StopIsStop ==
    ASSUME pc \notin {"exiting", "returned"}, pc' \in {"exiting", "returned"},
           sent \in {NothingSent, EverythingSent},
           sent' = sent, interval' = interval
    PROVE  AbstractRounds!Next
<1>1. AbstractRounds!Stop
  BY DEF AbstractRounds!Stop, AbstractRounds!None, AbstractRounds!All,
         NothingSent, EverythingSent
<1> QED
  BY <1>1 DEF AbstractRounds!Next

LEMMA OthersStutter ==
    ASSUME sent' = sent, interval' = interval,
           pc' \in {"exiting", "returned"} <=> pc \in {"exiting", "returned"}
    PROVE  UNCHANGED AbstractRounds!vars
  BY DEF AbstractRounds!vars

LEMMA RoundsStep ==
    ASSUME RoundsInv, [Next]_vars
    PROVE  [AbstractRounds!Next]_(AbstractRounds!vars)
<1>1. CASE Start
  BY <1>1, OthersStutter DEF Start
<1>2. CASE LoopCheck
  <2>1. pc = "check" /\ sent' = sent /\ interval' = interval
    BY <1>2 DEF LoopCheck
  <2>2. sent = NothingSent
    BY <2>1, RoundBoundary
  <2>3. pc' = "advance" \/ pc' \in {"exiting", "returned"}
    BY <1>2 DEF LoopCheck
  <2> QED
    BY <2>1, <2>2, <2>3, StopIsStop, OthersStutter
<1>3. CASE Pace
  <2>1. pc = "pace" /\ sent = EverythingSent /\ interval < NumIntervals
    BY <1>3, RoundBoundary DEF Pace, RoundsInv, BarrierInv, PlacesInv
  <2>2. CASE pc' = "check" /\ interval' = interval + 1 /\ sent' = NothingSent
    <3>1. AbstractRounds!NextRound
      BY <2>1, <2>2
         DEF AbstractRounds!NextRound, AbstractRounds!None,
             AbstractRounds!All, NothingSent, EverythingSent
    <3> QED
      BY <3>1 DEF AbstractRounds!Next
  <2>3. CASE pc' = "returned" /\ interval' = interval /\ sent' = sent
    BY <2>1, <2>3, StopIsStop
  <2> QED
    BY <1>3, <2>2, <2>3 DEF Pace
<1>4. CASE ReportExit
  BY <1>4, OthersStutter DEF ReportExit
<1>5. CASE AdvanceTemplate
  BY <1>5, OthersStutter DEF AdvanceTemplate
<1>6. CASE AllScenariosStarted
  BY <1>6, OthersStutter DEF AllScenariosStarted
<1>7. CASE EmitInline
  <2>1. /\ pc = "inline" /\ pc' = "load" /\ interval' = interval
        /\ sent' = [sent EXCEPT ![<<scn, i>>] = @ + 1]
        /\ i \in Nat /\ i < Scale[scn] /\ scn \in Int
    BY <1>7, NumScenariosAssumption
       DEF EmitInline, RoundsInv, BarrierInv, TypeOK, MainTypeOK
  <2>2. scn \in Scenario /\ Concurrency[scn] = 0
    BY <2>1 DEF RoundsInv, BarrierInv, PlacesInv, InScenario, ModeInv, InlinePC
  <2>3. i \in Slots(scn)
    BY <2>1, <2>2, ScaleAssumption DEF Slots
  <2>4. ~SlotTaken(scn, i)
    BY <2>1 DEF SlotTaken
  <2>5. sent[<<scn, i>>] = 0
    BY <2>1, <2>2, <2>3, <2>4 DEF RoundsInv, SentInv, InlineSentInv
  <2>6. <<scn, i>> \in Emitter
    BY <2>2, <2>3 DEF Emitter
  <2> QED
    BY <2>1, <2>5, <2>6, EmitIsEmit DEF Producing
<1>8. CASE LoadDataPoints
  BY <1>8, OthersStutter DEF LoadDataPoints
<1>9. CASE StoreDataPoints
  BY <1>9, OthersStutter DEF StoreDataPoints
<1>10. CASE InlineDone
  BY <1>10, OthersStutter DEF InlineDone
<1>11. CASE SpawnWorker
  BY <1>11, OthersStutter DEF SpawnWorker
<1>12. CASE SpawnDone
  BY <1>12, OthersStutter DEF SpawnDone
<1>13. CASE WaitForWorkers
  BY <1>13, OthersStutter DEF WaitForWorkers
<1>14. CASE ApplyChurn
  BY <1>14, OthersStutter DEF ApplyChurn
<1>15. CASE ChurnDone
  BY <1>15, OthersStutter DEF ChurnDone
<1>16. ASSUME NEW v \in Worker, WorkerEmit(v)
      PROVE  [AbstractRounds!Next]_(AbstractRounds!vars)
  <2> DEFINE x == <<v[1], SlotOf(v, j[v])>>
  <2>1. /\ wpc[v] = "emit" /\ sent' = [sent EXCEPT ![x] = @ + 1]
        /\ pc' = pc /\ interval' = interval
        /\ j[v] \in Nat /\ j[v] \in Turns(v)
    BY <1>16, Share
       DEF WorkerEmit, mainVars, Turns, RoundsInv, BarrierInv, TypeOK,
           WorkerTypeOK
  <2>2. Spawned(v) /\ pc \in Producing
    BY <2>1 DEF RoundsInv, BarrierInv, WaitGroupInv, Spawned, Producing
  <2>3. ~TurnTaken(v, j[v])
    BY <2>1, <2>2 DEF TurnTaken, Producing
  <2>4. sent[x] = 0
    BY <2>1, <2>2, <2>3 DEF RoundsInv, SentInv, WorkersSentInv, Producing
  <2>5. x \in Emitter
    BY <2>1, SlotOfTurn
  <2> HIDE DEF x
  <2> QED
    BY <2>1, <2>2, <2>4, <2>5, EmitIsEmit
<1>17. ASSUME NEW v \in Worker, WorkerCount(v)
      PROVE  [AbstractRounds!Next]_(AbstractRounds!vars)
  BY <1>17, OthersStutter DEF WorkerCount, mainVars
<1>18. ASSUME NEW v \in Worker, WorkerDone(v)
      PROVE  [AbstractRounds!Next]_(AbstractRounds!vars)
  BY <1>18, OthersStutter DEF WorkerDone, mainVars
<1>19. CASE UNCHANGED <<pc, scn, i, interval, wpc, j, wg, sent, progress,
                        exitReported>>
  BY <1>19, OthersStutter
<1> QED
  BY <1>1, <1>2, <1>3, <1>4, <1>5, <1>6, <1>7, <1>8, <1>9, <1>10, <1>11,
     <1>12, <1>13, <1>14, <1>15, <1>16, <1>17, <1>18, <1>19, CollectorSteps
     DEF Next, MainNext, WorkerNext

(* The generator implements Rounds (receiver.go:211-253): the rounds of      *)
(* emissions are complete and in order, whatever the interleaving, and end   *)
(* only between two rounds, whatever ended them.                             *)
THEOREM ImplementsRounds == Spec => RoundsSpec
<1>1. Init => AbstractRounds!Init
  BY DEF Init, AbstractRounds!Init, AbstractRounds!None, NothingSent
<1>2. RoundsInv /\ [Next]_vars => [AbstractRounds!Next]_(AbstractRounds!vars)
  BY RoundsStep
<1> QED
  BY <1>1, <1>2, RoundsInvCorrect, PTL DEF Spec, RoundsSpec, AbstractRounds!Spec

-----------------------------------------------------------------------------
(* The end of the run                                                        *)

(* The exit is reported from "exiting", which only the end of the time       *)
(* range leads to, and Shutdown returns when no goroutine runs.              *)
StopInv ==
    /\ pc = "exiting" => interval = NumIntervals
    /\ ExitOnlyWhenComplete
    /\ shutdown = "returned" => pc \in {"created", "returned"}

LEMMA StopInvStep ==
    ASSUME RoundsInv, StopInv, [Next]_vars
    PROVE  StopInv'
<1>1. interval \in 0 .. NumIntervals /\ NumIntervals \in Nat
  BY NumIntervalsAssumption DEF RoundsInv, BarrierInv, TypeOK, MainTypeOK
<1>2. CASE Start
  BY <1>1, <1>2
     DEF Start, StopInv, ExitOnlyWhenComplete, envVars
<1>3. CASE LoopCheck
  BY <1>1, <1>3
     DEF LoopCheck, StopInv, ExitOnlyWhenComplete, envVars
<1>4. CASE Pace
  BY <1>1, <1>4
     DEF Pace, StopInv, ExitOnlyWhenComplete, envVars
<1>5. CASE ReportExit
  BY <1>1, <1>5
     DEF ReportExit, StopInv, ExitOnlyWhenComplete, envVars
<1>6. CASE AdvanceTemplate
  BY <1>1, <1>6
     DEF AdvanceTemplate, StopInv, ExitOnlyWhenComplete, envVars
<1>7. CASE AllScenariosStarted
  BY <1>1, <1>7
     DEF AllScenariosStarted, StopInv, ExitOnlyWhenComplete, envVars
<1>8. CASE EmitInline
  BY <1>1, <1>8
     DEF EmitInline, StopInv, ExitOnlyWhenComplete, envVars
<1>9. CASE LoadDataPoints
  BY <1>1, <1>9
     DEF LoadDataPoints, StopInv, ExitOnlyWhenComplete, envVars
<1>10. CASE StoreDataPoints
  BY <1>1, <1>10
     DEF StoreDataPoints, StopInv, ExitOnlyWhenComplete, envVars
<1>11. CASE InlineDone
  BY <1>1, <1>11
     DEF InlineDone, StopInv, ExitOnlyWhenComplete, envVars
<1>12. CASE SpawnWorker
  BY <1>1, <1>12
     DEF SpawnWorker, StopInv, ExitOnlyWhenComplete, envVars
<1>13. CASE SpawnDone
  BY <1>1, <1>13
     DEF SpawnDone, StopInv, ExitOnlyWhenComplete, envVars
<1>14. CASE WaitForWorkers
  BY <1>1, <1>14
     DEF WaitForWorkers, StopInv, ExitOnlyWhenComplete, envVars
<1>15. CASE ApplyChurn
  BY <1>1, <1>15
     DEF ApplyChurn, StopInv, ExitOnlyWhenComplete, envVars
<1>16. CASE ChurnDone
  BY <1>1, <1>16
     DEF ChurnDone, StopInv, ExitOnlyWhenComplete, envVars
<1>17. ASSUME NEW v \in Worker, WorkerEmit(v)
      PROVE  StopInv'
  BY <1>17
     DEF WorkerEmit, StopInv, ExitOnlyWhenComplete, mainVars, envVars
<1>18. ASSUME NEW v \in Worker, WorkerCount(v)
      PROVE  StopInv'
  BY <1>18
     DEF WorkerCount, StopInv, ExitOnlyWhenComplete, mainVars, envVars
<1>19. ASSUME NEW v \in Worker, WorkerDone(v)
      PROVE  StopInv'
  BY <1>19
     DEF WorkerDone, StopInv, ExitOnlyWhenComplete, mainVars, envVars
<1>20. CASE CancelParent
  BY <1>20
     DEF CancelParent, StopInv, ExitOnlyWhenComplete, vars, mainVars,
         envVars
<1>21. CASE Shutdown
  BY <1>21
     DEF Shutdown, StopInv, ExitOnlyWhenComplete, vars, mainVars, envVars
<1>22. CASE ShutdownReturns
  BY <1>22
     DEF ShutdownReturns, StopInv, ExitOnlyWhenComplete, vars, mainVars,
         envVars
<1>23. CASE TickerFires
  BY <1>23
     DEF TickerFires, StopInv, ExitOnlyWhenComplete, vars, mainVars,
         envVars
<1>24. CASE Terminated
  BY <1>24
     DEF Terminated, StopInv, ExitOnlyWhenComplete, vars, mainVars,
         envVars
<1>25. CASE UNCHANGED vars
  BY <1>25
     DEF StopInv, ExitOnlyWhenComplete, vars, mainVars, envVars
<1> QED
  BY <1>2, <1>3, <1>4, <1>5, <1>6, <1>7, <1>8, <1>9, <1>10, <1>11, <1>12,
     <1>13, <1>14, <1>15, <1>16, <1>17, <1>18, <1>19, <1>20, <1>21, <1>22,
     <1>23, <1>24, <1>25
     DEF Next, MainNext, WorkerNext

LEMMA StopInvCorrect == Spec => []StopInv
<1>1. Init => StopInv
  BY DEF Init, StopInv, ExitOnlyWhenComplete
<1>2. RoundsInv /\ StopInv /\ [Next]_vars => StopInv'
  BY StopInvStep
<1> QED
  BY <1>1, <1>2, RoundsInvCorrect, PTL DEF Spec

(* The fatal status is reported at the end of a complete run only            *)
(* (receiver.go:240-252).                                                    *)
THEOREM ExitReportsCompletion == Spec => []ExitOnlyWhenComplete
<1>1. StopInv => ExitOnlyWhenComplete
  BY DEF StopInv
<1> QED
  BY <1>1, StopInvCorrect, PTL

(* Once Shutdown has returned the receiver does nothing any more             *)
(* (receiver.go:438-442).                                                    *)
THEOREM ShutdownSilences == Spec => QuietAfterShutdown
<1> DEFINE Quiet == shutdown = "returned" =>
                        UNCHANGED <<sent, progress, interval, exitReported>>
<1>1. RoundsInv /\ StopInv /\ [Next]_vars => [Quiet]_vars
  <2> SUFFICES ASSUME RoundsInv, StopInv, [Next]_vars, shutdown = "returned"
               PROVE  UNCHANGED <<sent, progress, interval, exitReported>>
    OBVIOUS
  <2>1. pc \in {"created", "returned"}
    BY DEF StopInv
  <2>2. \A v \in Worker : wpc[v] = "idle"
    BY <2>1 DEF RoundsInv, BarrierInv, WaitGroupInv, Spawned, Producing
  <2>3. ASSUME NEW v \in Worker
        PROVE  ~WorkerNext(v)
    BY <2>2 DEF WorkerNext, WorkerEmit, WorkerCount, WorkerDone
  <2>4. ~MainNext
    BY <2>1
       DEF MainNext, LoopCheck, Pace, ReportExit, AdvanceTemplate,
           AllScenariosStarted, EmitInline, LoadDataPoints, StoreDataPoints,
           InlineDone, SpawnWorker, SpawnDone, WaitForWorkers, ApplyChurn,
           ChurnDone
  <2>5. ~Start
    BY DEF Start
  <2> QED
    BY <2>3, <2>4, <2>5, CollectorSteps DEF Next
<1> QED
  BY <1>1, RoundsInvCorrect, StopInvCorrect, PTL DEF Spec, QuietAfterShutdown

-----------------------------------------------------------------------------
(* The totals: what baseRand has yielded, from which the seeds of the workers *)
(* follow, and the data points the receiver counts.  Both are sums over all   *)
(* scenarios or instances.                                                   *)

-----------------------------------------------------------------------------
(* Sets of pairs <<s, k>>, k below N[s]: the instances of all scenarios, and  *)
(* the workers of all scenarios                                              *)

Row(n, k) == {n} \X (0 .. (k - 1))
Block(N, n) == UNION {Row(s, N[s]) : s \in 1 .. n}

LEMMA EmitterIsBlock == Emitter = Block(Scale, NumScenarios)
  BY DEF Emitter, Block, Row, Slots, Scenario

LEMMA WorkerIsBlock == Worker = Block(Concurrency, NumScenarios)
  BY DEF Worker, Block, Row, Scenario

LEMMA RowGrows ==
    ASSUME NEW n, NEW k \in Nat
    PROVE  Row(n, k + 1) = Row(n, k) \cup {<<n, k>>} /\ <<n, k>> \notin Row(n, k)
<1>1. 0 .. ((k + 1) - 1) = (0 .. (k - 1)) \cup {k} /\ k \notin 0 .. (k - 1)
  OBVIOUS
<1> QED
  BY <1>1 DEF Row

LEMMA BlockGrows ==
    ASSUME NEW N, NEW n \in Nat
    PROVE  /\ Block(N, 0) = {}
           /\ Block(N, n + 1) = Block(N, n) \cup Row(n + 1, N[n + 1])
           /\ \A k \in Int : Block(N, n) \cap Row(n + 1, k) = {}
<1>1. 1 .. (n + 1) = (1 .. n) \cup {n + 1} /\ n + 1 \notin 1 .. n /\ 1 .. 0 = {}
  OBVIOUS
<1> QED
  BY <1>1 DEF Block, Row

LEMMA RowFinite ==
    ASSUME NEW n, NEW k \in Nat
    PROVE  IsFiniteSet(Row(n, k))
<1>1. IsFiniteSet({n})
  BY FS_Singleton
<1>2. IsFiniteSet(0 .. (k - 1))
  <2>1. k - 1 \in Int /\ 0 \in Int
    OBVIOUS
  <2> QED
    BY <2>1, FS_Interval
<1> QED
  BY <1>1, <1>2, FS_Product DEF Row

LEMMA BlockFinite ==
    ASSUME NEW m \in Nat, NEW N \in [1 .. m -> Nat]
    PROVE  \A n \in 0 .. m : IsFiniteSet(Block(N, n))
<1> DEFINE Bad == {n \in 0 .. m : ~IsFiniteSet(Block(N, n))}
<1>1. SUFFICES ASSUME Bad # {} PROVE FALSE
  OBVIOUS
<1>2. PICK b \in Bad : \A n \in Bad : b <= n
  <2>1. Bad \in SUBSET Nat
    OBVIOUS
  <2> HIDE DEF Bad
  <2> QED
    BY <1>1, <2>1, LeastNat
<1>3. b # 0
  BY <1>2, BlockGrows, FS_EmptySet
<1>4. PICK n \in Nat : b = n + 1 /\ n \in 0 .. m /\ n \notin Bad /\ b \in 1 .. m
  <2>1. b - 1 \in Nat /\ b = (b - 1) + 1 /\ b - 1 \in 0 .. m /\ b \in 1 .. m
    BY <1>2, <1>3
  <2>2. b - 1 \notin Bad
    BY <1>2, <2>1
  <2> QED
    BY <2>1, <2>2
<1>5. IsFiniteSet(Row(b, N[b]))
  BY <1>4, RowFinite
<1>6. IsFiniteSet(Block(N, n) \cup Row(b, N[b]))
  BY <1>4, <1>5, FS_Union
<1> QED
  BY <1>2, <1>4, <1>6, BlockGrows

(* Adding a row of equal summands.                                           *)
RowApart(S, n, m, f, c) ==
    /\ IsFiniteSet(S) /\ S \cap Row(n, m) = {}
    /\ \A x \in S : f[x] \in Int
    /\ \A x \in Row(n, m) : f[x] = c

LEMMA RowSum ==
    ASSUME NEW S, NEW n, NEW m \in Nat, NEW f, NEW c \in Int,
           RowApart(S, n, m, f, c)
    PROVE  SumFunctionOnSet(f, S \cup Row(n, m)) = SumFunctionOnSet(f, S) + m * c
<1> USE DEF RowApart
<1> DEFINE Sum(k) == SumFunctionOnSet(f, S \cup Row(n, k))
           s == SumFunctionOnSet(f, S)
           Bad == {k \in 0 .. m : Sum(k) # s + k * c}
<1>1. SUFFICES ASSUME Bad # {} PROVE FALSE
  <2>1. m \in 0 .. m
    OBVIOUS
  <2> QED
    BY <2>1, Zenon
<1>2. PICK b \in Bad : \A k \in Bad : b <= k
  <2>1. Bad \in SUBSET Nat
    OBVIOUS
  <2> HIDE DEF Bad
  <2> QED
    BY <1>1, <2>1, LeastNat
<1>3. s \in Int
  BY SumType
<1>4. b # 0
  <2>1. S \cup Row(n, 0) = S
    BY DEF Row
  <2> HIDE DEF s
  <2>2. s + 0 * c = s
    BY <1>3
  <2> QED
    BY <1>2, <2>1, <2>2 DEF s
<1>5. PICK k \in Nat : b = k + 1 /\ k \in 0 .. m /\ k \notin Bad /\ k < m
  <2>1. b - 1 \in Nat /\ b = (b - 1) + 1 /\ b - 1 \in 0 .. m /\ b - 1 < m
    BY <1>2, <1>4
  <2>2. b - 1 \notin Bad
    BY <1>2, <2>1
  <2> QED
    BY <2>1, <2>2
<1>6. Row(n, k) \subseteq Row(n, m) /\ <<n, k>> \in Row(n, m)
  BY <1>5 DEF Row
<1>7. /\ IsFiniteSet(S \cup Row(n, k))
      /\ <<n, k>> \notin S \cup Row(n, k)
      /\ S \cup Row(n, k + 1) = (S \cup Row(n, k)) \cup {<<n, k>>}
  BY <1>5, <1>6, RowFinite, RowGrows, FS_Union
<1>8. \A x \in (S \cup Row(n, k)) \cup {<<n, k>>} : f[x] \in Int
  BY <1>6
<1>9. Sum(k + 1) = Sum(k) + f[<<n, k>>]
  BY <1>7, <1>8, SumAdd
<1>10. f[<<n, k>>] = c /\ Sum(k) = s + k * c /\ Sum(k + 1) # s + (k + 1) * c
  BY <1>2, <1>5, <1>6
<1> HIDE DEF Sum, s
<1>11. (k + 1) * c = k * c + c /\ k * c \in Int
  BY <1>5
<1> QED
  BY <1>3, <1>9, <1>10, <1>11

(* When a summand depends on the first component only, the sum over all       *)
(* pairs is a sum over the first components.                                 *)
BlockWeights(m, N, P, f, g) ==
    /\ N \in [1 .. m -> Nat] /\ P \in [1 .. m -> Int]
    /\ \A x \in Block(N, m) : f[x] = P[x[1]]
    /\ \A s \in 1 .. m : g[s] = N[s] * P[s]

LEMMA BlockSum ==
    ASSUME NEW m \in Nat, NEW N, NEW P, NEW f, NEW g,
           BlockWeights(m, N, P, f, g)
    PROVE  SumFunctionOnSet(f, Block(N, m)) = SumFunctionOnSet(g, 1 .. m)
<1> USE DEF BlockWeights
<1> DEFINE F(n) == SumFunctionOnSet(f, Block(N, n))
           G(n) == SumFunctionOnSet(g, 1 .. n)
           Bad == {n \in 0 .. m : F(n) # G(n)}
<1>1. SUFFICES ASSUME Bad # {} PROVE FALSE
  OBVIOUS
<1>2. PICK b \in Bad : \A n \in Bad : b <= n
  <2>1. Bad \in SUBSET Nat
    OBVIOUS
  <2> HIDE DEF Bad
  <2> QED
    BY <1>1, <2>1, LeastNat
<1>3. b # 0
  <2>1. Block(N, 0) = {} /\ 1 .. 0 = {}
    BY BlockGrows
  <2> QED
    BY <1>2, <2>1, SumEmpty
<1>4. PICK n \in Nat : b = n + 1 /\ n \in 0 .. m /\ n \notin Bad /\ b \in 1 .. m
  <2>1. b - 1 \in Nat /\ b = (b - 1) + 1 /\ b - 1 \in 0 .. m /\ b \in 1 .. m
    BY <1>2, <1>3
  <2>2. b - 1 \notin Bad
    BY <1>2, <2>1
  <2> QED
    BY <2>1, <2>2
<1>5. N[b] \in Nat /\ P[b] \in Int
  BY <1>4
<1>6. Block(N, n) \subseteq Block(N, m) /\ Row(b, N[b]) \subseteq Block(N, m)
  BY <1>4 DEF Block
<1>7. \A x \in Row(b, N[b]) : f[x] = P[b]
  <2>1. \A x \in Row(b, N[b]) : x[1] = b
    BY DEF Row
  <2> QED
    BY <1>6, <2>1
<1>8. \A x \in Block(N, n) : f[x] \in Int
  <2>1. \A x \in Block(N, m) : x[1] \in 1 .. m
    BY DEF Block, Row
  <2> QED
    BY <1>6, <2>1
<1>9. /\ IsFiniteSet(Block(N, n)) /\ Block(N, n) \cap Row(b, N[b]) = {}
      /\ Block(N, b) = Block(N, n) \cup Row(b, N[b])
  <2>1. IsFiniteSet(Block(N, n))
    BY <1>4, BlockFinite
  <2>2. N[b] \in Int
    BY <1>5
  <2> QED
    BY <1>4, <2>1, <2>2, BlockGrows
<1>10. F(b) = F(n) + N[b] * P[b]
  <2>1. PICK x \in Nat : x = N[b]
    BY <1>5
  <2>2. PICK c \in Int : c = P[b]
    BY <1>5
  <2> DEFINE S == Block(N, n)
  <2>3. RowApart(S, b, x, f, c)
    BY <1>7, <1>8, <1>9, <2>1, <2>2 DEF RowApart
  <2>4. F(n) = SumFunctionOnSet(f, S) /\ F(b) = SumFunctionOnSet(f, S \cup Row(b, x))
    BY <1>9, <2>1
  <2> HIDE DEF S, F
  <2>5. x \in Nat /\ c \in Int
    OBVIOUS
  <2>6. SumFunctionOnSet(f, S \cup Row(b, x)) = SumFunctionOnSet(f, S) + x * c
    BY <2>3, <2>5, RowSum
  <2> QED
    BY <2>1, <2>2, <2>4, <2>6
<1>11. G(b) = G(n) + g[b]
  <2>1. /\ 1 .. b = (1 .. n) \cup {b} /\ b \notin 1 .. n
        /\ 1 .. b \subseteq 1 .. m
    BY <1>4
  <2>2. \A s \in (1 .. n) \cup {b} : g[s] \in Int
    <3>1. \A s \in 1 .. m : N[s] \in Int /\ P[s] \in Int
      OBVIOUS
    <3>2. \A s \in 1 .. m : g[s] \in Int
      BY <3>1
    <3> QED
      BY <2>1, <3>2
  <2>3. IsFiniteSet(1 .. n)
    BY <1>4, FS_Interval
  <2>4. SumFunctionOnSet(g, (1 .. n) \cup {b}) =
            SumFunctionOnSet(g, 1 .. n) + g[b]
    BY <2>1, <2>2, <2>3, SumAdd, ZenonT(30)
  <2> QED
    BY <2>1, <2>4
<1> QED
  BY <1>2, <1>4, <1>10, <1>11

-----------------------------------------------------------------------------
(* The values baseRand has yielded                                           *)

DrawsPerInterval == SumFunction(IntervalDraws)
DrawsOfScenarios(n) == SumFunctionOnSet(IntervalDraws, 1 .. n)

(* Those of the completed intervals and of the replacements, and those of    *)
(* the running interval at place p, scenario s and loop index k.             *)
DrawsBase == interval * DrawsPerInterval + SumFunction(ChurnDraws)
DrawsAt(p, s, k) ==
    IF p \in {"churn", "pace"} THEN DrawsPerInterval
    ELSE IF p \in {"advance", "wait"} THEN DrawsOfScenarios(s - 1)
    ELSE IF p \in {"inline", "spawn"} THEN DrawsOfScenarios(s - 1) + 1 + k
    ELSE IF p \in {"load", "store"} THEN DrawsOfScenarios(s - 1) + 2 + k
    ELSE 0

DrawsInv == pc # "returned" => draws = DrawsBase + DrawsAt(pc, scn, i)

LoopInv ==
    /\ pc = "inline" => i <= Scale[scn]
    /\ pc \in {"load", "store"} => i < Scale[scn]
    /\ pc = "spawn" => i <= Concurrency[scn]

(* The inductive invariant behind the seeds.                                 *)
SeedsInv == DrawsInv /\ LoopInv /\ SeedsIndependentOfSchedule

LEMMA ScenarioFinite == IsFiniteSet(Scenario)
  BY NumScenariosAssumption, FS_Interval DEF Scenario

LEMMA IntervalDrawsNat == IntervalDraws \in [Scenario -> Nat]
  BY ScaleAssumption, ConcurrencyAssumption DEF IntervalDraws

LEMMA DrawsOfScenariosGrow ==
    /\ DrawsOfScenarios(0) = 0
    /\ DrawsOfScenarios(NumScenarios) = DrawsPerInterval
    /\ DrawsPerInterval \in Int
    /\ \A s \in Scenario :
         /\ DrawsOfScenarios(s - 1) \in Int
         /\ DrawsOfScenarios(s) = DrawsOfScenarios(s - 1) + IntervalDraws[s]
<1>1. DrawsOfScenarios(0) = 0
  <2>1. 1 .. 0 = {}
    OBVIOUS
  <2> QED
    BY <2>1, SumEmpty DEF DrawsOfScenarios
<1>2. DrawsOfScenarios(NumScenarios) = DrawsPerInterval
  <2>1. DOMAIN IntervalDraws = 1 .. NumScenarios
    BY DEF IntervalDraws, Scenario
  <2> QED
    BY <2>1 DEF DrawsOfScenarios, DrawsPerInterval, SumFunction
<1>3. \A s \in Scenario : IntervalDraws[s] \in Int
  BY IntervalDrawsNat
<1>4. ASSUME NEW n \in 0 .. NumScenarios
      PROVE  DrawsOfScenarios(n) \in Int
  <2>1. 1 .. n \subseteq Scenario
    BY NumScenariosAssumption DEF Scenario
  <2>2. IsFiniteSet(1 .. n)
    BY FS_Interval
  <2>3. \A s \in 1 .. n : IntervalDraws[s] \in Int
    BY <1>3, <2>1
  <2> QED
    BY <2>2, <2>3, SumType DEF DrawsOfScenarios
<1>5. ASSUME NEW s \in Scenario
      PROVE  DrawsOfScenarios(s) = DrawsOfScenarios(s - 1) + IntervalDraws[s]
  <2>1. /\ 1 .. s = (1 .. (s - 1)) \cup {s} /\ s \notin 1 .. (s - 1)
        /\ 1 .. s \subseteq Scenario
    BY NumScenariosAssumption DEF Scenario
  <2>2. \A x \in (1 .. (s - 1)) \cup {s} : IntervalDraws[x] \in Int
    BY <1>3, <2>1
  <2>3. IsFiniteSet(1 .. (s - 1))
    BY FS_Interval DEF Scenario
  <2> QED
    BY <2>1, <2>2, <2>3, SumAdd, ZenonT(30) DEF DrawsOfScenarios
<1>6. NumScenarios \in 0 .. NumScenarios
  BY NumScenariosAssumption
<1>7. \A s \in Scenario : s - 1 \in 0 .. NumScenarios
  BY NumScenariosAssumption DEF Scenario
<1> QED
  BY <1>1, <1>2, <1>4, <1>5, <1>6, <1>7

LEMMA ChurnDrawsInt ==
    ASSUME TypeOK
    PROVE  SumFunction(ChurnDraws) \in Int
<1>1. DOMAIN ChurnDraws = Scenario /\ \A s \in Scenario : ChurnDraws[s] \in Int
  BY ScaleAssumption DEF ChurnDraws, TypeOK, DataTypeOK
<1> QED
  BY <1>1, ScenarioFinite, SumType DEF SumFunction

(* A replacement takes one value (receiver.go:319-323).                      *)
LEMMA ChurnDrawsGrow ==
    ASSUME TypeOK, TypeOK', NEW s \in Scenario, NEW n \in Nat,
           nextID' = [nextID EXCEPT ![s] = @ + n]
    PROVE  SumFunction(ChurnDraws)' = SumFunction(ChurnDraws) + n
<1> DEFINE f == ChurnDraws
           g == ChurnDraws'
<1>1. /\ DOMAIN f = Scenario /\ DOMAIN g = Scenario
      /\ \A x \in Scenario : f[x] \in Int /\ g[x] \in Int
      /\ \A x \in Scenario : x # s => g[x] = f[x]
      /\ g[s] - f[s] = n
  <2>1. /\ nextID \in [Scenario -> Nat] /\ nextID' \in [Scenario -> Nat]
        /\ nextID'[s] = nextID[s] + n
        /\ \A x \in Scenario : x # s => nextID'[x] = nextID[x]
    BY DEF TypeOK, DataTypeOK
  <2>2. /\ f = [x \in Scenario |-> nextID[x] - Scale[x]]
        /\ g = [x \in Scenario |-> nextID'[x] - Scale[x]]
    BY DEF ChurnDraws
  <2> HIDE DEF f, g
  <2> QED
    BY <2>1, <2>2, ScaleAssumption
<1>2. SumFunction(ChurnDraws)' = SumFunctionOnSet(g, Scenario)
  BY <1>1 DEF SumFunction
<1>3. SumFunction(ChurnDraws) = SumFunctionOnSet(f, Scenario)
  BY <1>1 DEF SumFunction
<1> HIDE DEF f, g
<1>4. SumFunctionOnSet(g, Scenario) = SumFunctionOnSet(f, Scenario) + (g[s] - f[s])
  BY <1>1, ScenarioFinite, SumChange
<1> QED
  BY <1>1, <1>2, <1>3, <1>4

LEMMA DrawsBaseInt ==
    ASSUME TypeOK
    PROVE  DrawsBase \in Int
<1>1. interval \in Int
  BY NumIntervalsAssumption DEF TypeOK, MainTypeOK
<1> QED
  BY <1>1, ChurnDrawsInt, DrawsOfScenariosGrow DEF DrawsBase

(* The collector, the ticker and Shutdown change nothing of the production.  *)
LEMMA CollectorKeeps ==
    ASSUME \/ CancelParent \/ Shutdown \/ ShutdownReturns
           \/ TickerFires \/ Terminated \/ UNCHANGED vars
    PROVE  UNCHANGED <<pc, scn, i, interval, loaded, wpc, seed, wg, dataPoints,
                       progress, nextID, draws, sent>>
  BY DEF CancelParent, Shutdown, ShutdownReturns, TickerFires, Terminated,
         vars, mainVars, workerVars, countVars, churnVars

LEMMA LoopStep ==
    ASSUME RoundsInv, LoopInv, [Next]_vars
    PROVE  LoopInv'
<1>1. /\ pc \in MainPC /\ scn \in 1 .. (NumScenarios + 1) /\ i \in Nat
      /\ pc \in InScenario => scn \in Scenario
  BY DEF RoundsInv, BarrierInv, TypeOK, MainTypeOK, PlacesInv
<1>2. \A s \in Scenario : Scale[s] \in Nat /\ Concurrency[s] \in Nat
  BY ScaleAssumption, ConcurrencyAssumption
<1>3. CASE Start
  BY <1>3
     DEF Start, LoopInv, mainVars
<1>4. CASE LoopCheck
  BY <1>4
     DEF LoopCheck, LoopInv, mainVars
<1>5. CASE Pace
  BY <1>5
     DEF Pace, LoopInv, mainVars
<1>6. CASE ReportExit
  BY <1>6
     DEF ReportExit, LoopInv, mainVars
<1>7. CASE AdvanceTemplate
  BY <1>7, <1>1, <1>2
     DEF AdvanceTemplate, LoopInv, InScenario
<1>8. CASE AllScenariosStarted
  BY <1>8
     DEF AllScenariosStarted, LoopInv, mainVars
<1>9. CASE EmitInline
  BY <1>9, <1>1, <1>2
     DEF EmitInline, LoopInv, InScenario
<1>10. CASE LoadDataPoints
  BY <1>10
     DEF LoadDataPoints, LoopInv, mainVars
<1>11. CASE StoreDataPoints
  BY <1>11, <1>1, <1>2
     DEF StoreDataPoints, LoopInv, InScenario
<1>12. CASE InlineDone
  BY <1>12
     DEF InlineDone, LoopInv, mainVars
<1>13. CASE SpawnWorker
  BY <1>13, <1>1, <1>2
     DEF SpawnWorker, LoopInv, InScenario
<1>14. CASE SpawnDone
  BY <1>14
     DEF SpawnDone, LoopInv, mainVars
<1>15. CASE WaitForWorkers
  BY <1>15
     DEF WaitForWorkers, LoopInv, mainVars
<1>16. CASE ApplyChurn
  BY <1>16
     DEF ApplyChurn, LoopInv, mainVars
<1>17. CASE ChurnDone
  BY <1>17
     DEF ChurnDone, LoopInv, mainVars
<1>18. ASSUME NEW v \in Worker, WorkerEmit(v)
      PROVE  LoopInv'
  BY <1>18
     DEF WorkerEmit, LoopInv, mainVars
<1>19. ASSUME NEW v \in Worker, WorkerCount(v)
      PROVE  LoopInv'
  BY <1>19
     DEF WorkerCount, LoopInv, mainVars
<1>20. ASSUME NEW v \in Worker, WorkerDone(v)
      PROVE  LoopInv'
  BY <1>20
     DEF WorkerDone, LoopInv, mainVars
<1>21. CASE UNCHANGED <<pc, scn, i, interval, loaded, wpc, seed, wg, dataPoints,
                        progress, nextID, draws, sent>>
  BY <1>21
     DEF LoopInv, mainVars
<1> QED
  BY <1>3, <1>4, <1>5, <1>6, <1>7, <1>8, <1>9, <1>10, <1>11, <1>12, <1>13,
     <1>14, <1>15, <1>16, <1>17, <1>18, <1>19, <1>20, <1>21, CollectorKeeps
     DEF Next, MainNext, WorkerNext

(* The offset of a place, one fact per place.                                *)
LEMMA DrawsAtPlaces ==
    ASSUME NEW s, NEW k
    PROVE  /\ \A p \in {"churn", "pace"} : DrawsAt(p, s, k) = DrawsPerInterval
           /\ \A p \in {"advance", "wait"} :
                DrawsAt(p, s, k) = DrawsOfScenarios(s - 1)
           /\ \A p \in {"inline", "spawn"} :
                DrawsAt(p, s, k) = DrawsOfScenarios(s - 1) + 1 + k
           /\ \A p \in {"load", "store"} :
                DrawsAt(p, s, k) = DrawsOfScenarios(s - 1) + 2 + k
           /\ \A p \in {"created", "check", "exiting"} : DrawsAt(p, s, k) = 0
  BY DEF DrawsAt

(* Every value taken from baseRand is accounted for.                         *)
LEMMA DrawsStep ==
    ASSUME RoundsInv, LoopInv, DrawsInv, [Next]_vars
    PROVE  DrawsInv'
<1>1. /\ pc \in MainPC /\ scn \in 1 .. (NumScenarios + 1) /\ i \in Nat
      /\ scn \in Int /\ draws \in Nat
      /\ pc \in InScenario => scn \in Scenario
  BY NumScenariosAssumption
     DEF RoundsInv, BarrierInv, TypeOK, MainTypeOK, DataTypeOK, PlacesInv
<1>2. TypeOK /\ TypeOK'
  BY RoundsInvStep DEF RoundsInv, BarrierInv
<1>3. DrawsBase \in Int /\ DrawsPerInterval \in Int
  BY <1>2, DrawsBaseInt, DrawsOfScenariosGrow
<1>4. pc # "returned" => draws = DrawsBase + DrawsAt(pc, scn, i)
  BY DEF DrawsInv
<1> DEFINE Goal == DrawsInv'
<1>5. ASSUME pc' # "returned" => draws' = DrawsBase' + DrawsAt(pc', scn', i')
      PROVE  Goal
  BY <1>5 DEF DrawsInv, DrawsAt, DrawsPerInterval, DrawsOfScenarios,
              IntervalDraws
<1>6. ASSUME interval' = interval, nextID' = nextID
      PROVE  DrawsBase' = DrawsBase
  BY <1>6 DEF DrawsBase, ChurnDraws, DrawsPerInterval, IntervalDraws
<1> SUFFICES Goal
  OBVIOUS
<1> HIDE DEF Goal
<1>7. CASE Start
  <2>1. /\ interval' = interval /\ nextID' = nextID
        /\ pc = "created" /\ pc' = "check" /\ draws' = draws
    BY <1>7 DEF Start, churnVars
  <2>9. pc' # "returned" => draws' = DrawsBase + DrawsAt(pc', scn', i')
    BY <1>1, <1>3, <1>4, <2>1, DrawsAtPlaces
  <2> QED
    BY <1>5, <1>6, <2>1, <2>9
<1>8. CASE LoopCheck
  <2>1. /\ interval' = interval /\ nextID' = nextID
        /\ pc = "check" /\ draws' = draws
        /\ \/ pc' = "advance" /\ scn' = 1
           \/ pc' \in {"exiting", "returned"}
    BY <1>8 DEF LoopCheck, churnVars
  <2>2. DrawsOfScenarios(1 - 1) = 0
    BY DrawsOfScenariosGrow
  <2>9. pc' # "returned" => draws' = DrawsBase + DrawsAt(pc', scn', i')
    BY <1>1, <1>3, <1>4, <2>1, DrawsAtPlaces, <2>2
  <2> QED
    BY <1>5, <1>6, <2>1, <2>9
<1>9. CASE Pace
  <2>1. CASE pc' = "returned"
    BY <1>5, <2>1
  <2>2. CASE pc' # "returned"
    <3>1. /\ pc = "pace" /\ pc' = "check" /\ interval' = interval + 1
          /\ nextID' = nextID /\ draws' = draws
      BY <1>9, <2>2 DEF Pace, churnVars
    <3>2. /\ DrawsPerInterval' = DrawsPerInterval
          /\ SumFunction(ChurnDraws)' = SumFunction(ChurnDraws)
      BY <3>1 DEF DrawsPerInterval, IntervalDraws, ChurnDraws
    <3>3. SumFunction(ChurnDraws) \in Int /\ interval \in Int
      BY <1>2, ChurnDrawsInt, NumIntervalsAssumption DEF TypeOK, MainTypeOK
    <3>4. (interval + 1) * DrawsPerInterval =
              interval * DrawsPerInterval + DrawsPerInterval
      BY <1>3, <3>3
    <3>5. PICK x \in Int : x = interval * DrawsPerInterval
      BY <1>3, <3>3
    <3>6. /\ DrawsBase = x + SumFunction(ChurnDraws)
          /\ DrawsBase' = x + DrawsPerInterval + SumFunction(ChurnDraws)
      BY <3>1, <3>2, <3>4, <3>5 DEF DrawsBase
    <3>7. draws' = DrawsBase' + DrawsAt(pc', scn', i')
      BY <1>1, <1>3, <1>4, <3>1, <3>3, <3>5, <3>6, DrawsAtPlaces
    <3> QED
      BY <1>5, <3>7
  <2> QED
    BY <2>1, <2>2
<1>10. CASE ReportExit
  <2>1. pc' = "returned"
    BY <1>10 DEF ReportExit
  <2> QED
    BY <1>5, <2>1
<1>11. CASE AdvanceTemplate
  <2>1. /\ interval' = interval /\ nextID' = nextID
        /\ pc = "advance" /\ scn \in Scenario /\ draws' = draws + 1
        /\ scn' = scn /\ i' = 0 /\ pc' \in {"inline", "spawn"}
    BY <1>11 DEF AdvanceTemplate, churnVars
  <2>2. DrawsOfScenarios(scn - 1) \in Int
    BY <2>1, DrawsOfScenariosGrow
  <2>9. pc' # "returned" => draws' = DrawsBase + DrawsAt(pc', scn', i')
    BY <1>1, <1>3, <1>4, <2>1, DrawsAtPlaces, <2>2
  <2> QED
    BY <1>5, <1>6, <2>1, <2>9
<1>12. CASE AllScenariosStarted
  <2>1. /\ interval' = interval /\ nextID' = nextID
        /\ pc = "advance" /\ pc' = "wait" /\ draws' = draws
        /\ scn' = scn /\ i' = i
    BY <1>12 DEF AllScenariosStarted, churnVars
  <2>9. pc' # "returned" => draws' = DrawsBase + DrawsAt(pc', scn', i')
    BY <1>1, <1>3, <1>4, <2>1, DrawsAtPlaces
  <2> QED
    BY <1>5, <1>6, <2>1, <2>9
<1>13. CASE EmitInline
  <2>1. /\ interval' = interval /\ nextID' = nextID
        /\ pc = "inline" /\ pc' = "load" /\ draws' = draws + 1
        /\ scn' = scn /\ i' = i
    BY <1>13 DEF EmitInline, churnVars
  <2>2. DrawsOfScenarios(scn - 1) \in Int
    BY <1>1, <2>1, DrawsOfScenariosGrow DEF InScenario
  <2>9. pc' # "returned" => draws' = DrawsBase + DrawsAt(pc', scn', i')
    BY <1>1, <1>3, <1>4, <2>1, DrawsAtPlaces, <2>2
  <2> QED
    BY <1>5, <1>6, <2>1, <2>9
<1>14. CASE LoadDataPoints
  <2>1. /\ interval' = interval /\ nextID' = nextID
        /\ pc = "load" /\ pc' = "store" /\ draws' = draws
        /\ scn' = scn /\ i' = i
    BY <1>14 DEF LoadDataPoints, churnVars
  <2>9. pc' # "returned" => draws' = DrawsBase + DrawsAt(pc', scn', i')
    BY <1>1, <1>3, <1>4, <2>1, DrawsAtPlaces
  <2> QED
    BY <1>5, <1>6, <2>1, <2>9
<1>15. CASE StoreDataPoints
  <2>1. /\ interval' = interval /\ nextID' = nextID
        /\ pc = "store" /\ pc' = "inline" /\ draws' = draws
        /\ scn' = scn /\ i' = i + 1
    BY <1>15 DEF StoreDataPoints, churnVars
  <2>2. DrawsOfScenarios(scn - 1) \in Int
    BY <1>1, <2>1, DrawsOfScenariosGrow DEF InScenario
  <2>9. pc' # "returned" => draws' = DrawsBase + DrawsAt(pc', scn', i')
    BY <1>1, <1>3, <1>4, <2>1, DrawsAtPlaces, <2>2
  <2> QED
    BY <1>5, <1>6, <2>1, <2>9
<1>16. CASE InlineDone
  <2>1. /\ interval' = interval /\ nextID' = nextID
        /\ pc = "inline" /\ pc' = "advance" /\ draws' = draws
        /\ scn' = scn + 1 /\ i' = i /\ i >= Scale[scn]
    BY <1>16 DEF InlineDone, churnVars
  <2>2. scn \in Scenario /\ Concurrency[scn] = 0
    BY <1>1, <2>1 DEF RoundsInv, ModeInv, InScenario, InlinePC
  <2>3. i = Scale[scn]
    BY <1>1, <2>1, <2>2, ScaleAssumption, ConcurrencyAssumption DEF LoopInv
  <2>4. IntervalDraws[scn] = 1 + i
    BY <2>2, <2>3 DEF IntervalDraws
  <2>5. /\ DrawsOfScenarios(scn - 1) \in Int
        /\ DrawsOfScenarios(scn) = DrawsOfScenarios(scn - 1) + (1 + i)
    BY <2>2, <2>4, DrawsOfScenariosGrow
  <2>6. (scn + 1) - 1 = scn
    BY <1>1
  <2>9. pc' # "returned" => draws' = DrawsBase + DrawsAt(pc', scn', i')
    BY <1>1, <1>3, <1>4, <2>1, DrawsAtPlaces, <2>5, <2>6
  <2> QED
    BY <1>5, <1>6, <2>1, <2>9
<1>17. CASE SpawnWorker
  <2>1. /\ interval' = interval /\ nextID' = nextID
        /\ pc = "spawn" /\ pc' = "spawn" /\ draws' = draws + 1
        /\ scn' = scn /\ i' = i + 1
    BY <1>17 DEF SpawnWorker, churnVars
  <2>2. DrawsOfScenarios(scn - 1) \in Int
    BY <1>1, <2>1, DrawsOfScenariosGrow DEF InScenario
  <2>9. pc' # "returned" => draws' = DrawsBase + DrawsAt(pc', scn', i')
    BY <1>1, <1>3, <1>4, <2>1, DrawsAtPlaces, <2>2
  <2> QED
    BY <1>5, <1>6, <2>1, <2>9
<1>18. CASE SpawnDone
  <2>1. /\ interval' = interval /\ nextID' = nextID
        /\ pc = "spawn" /\ pc' = "advance" /\ draws' = draws
        /\ scn' = scn + 1 /\ i' = i /\ i >= Concurrency[scn]
    BY <1>18 DEF SpawnDone, churnVars
  <2>2. scn \in Scenario /\ Concurrency[scn] # 0
    BY <1>1, <2>1 DEF RoundsInv, ModeInv, InScenario, InlinePC
  <2>3. i = Concurrency[scn]
    BY <1>1, <2>1, <2>2, ScaleAssumption, ConcurrencyAssumption DEF LoopInv
  <2>4. IntervalDraws[scn] = 1 + i
    BY <2>2, <2>3 DEF IntervalDraws
  <2>5. /\ DrawsOfScenarios(scn - 1) \in Int
        /\ DrawsOfScenarios(scn) = DrawsOfScenarios(scn - 1) + (1 + i)
    BY <2>2, <2>4, DrawsOfScenariosGrow
  <2>6. (scn + 1) - 1 = scn
    BY <1>1
  <2>9. pc' # "returned" => draws' = DrawsBase + DrawsAt(pc', scn', i')
    BY <1>1, <1>3, <1>4, <2>1, DrawsAtPlaces, <2>5, <2>6
  <2> QED
    BY <1>5, <1>6, <2>1, <2>9
<1>19. CASE WaitForWorkers
  <2>1. /\ interval' = interval /\ nextID' = nextID
        /\ pc = "wait" /\ pc' = "churn" /\ draws' = draws
    BY <1>19 DEF WaitForWorkers, churnVars
  <2>2. scn - 1 = NumScenarios
    BY <1>1, <2>1, NumScenariosAssumption
       DEF RoundsInv, ModeInv, Scenario
  <2>3. DrawsOfScenarios(scn - 1) = DrawsPerInterval
    BY <2>2, DrawsOfScenariosGrow
  <2>9. pc' # "returned" => draws' = DrawsBase + DrawsAt(pc', scn', i')
    BY <1>1, <1>3, <1>4, <2>1, DrawsAtPlaces, <2>3
  <2> QED
    BY <1>5, <1>6, <2>1, <2>9
<1>20. CASE ApplyChurn
  <2> DEFINE n == NextChurnCount(remainder[scn], Rate[scn])
  <2>1. /\ pc = "churn" /\ pc' = "churn" /\ scn \in Scenario
        /\ interval' = interval /\ draws' = draws + n
        /\ nextID' = [nextID EXCEPT ![scn] = @ + n]
    BY <1>20 DEF ApplyChurn
  <2>2. n \in Nat
    BY <1>2, <2>1, ChurnCountNat DEF TypeOK, DataTypeOK
  <2> HIDE DEF n
  <2>3. SumFunction(ChurnDraws)' = SumFunction(ChurnDraws) + n
    BY <1>2, <2>1, <2>2, ChurnDrawsGrow
  <2>4. DrawsPerInterval' = DrawsPerInterval
    BY DEF DrawsPerInterval, IntervalDraws
  <2>5. PICK x \in Int : x = interval * DrawsPerInterval
    BY <1>2, <1>3, NumIntervalsAssumption DEF TypeOK, MainTypeOK
  <2>6. DrawsBase' = DrawsBase + n
    <3>1. DrawsBase = x + SumFunction(ChurnDraws)
      BY <2>5 DEF DrawsBase
    <3>2. DrawsBase' = x + SumFunction(ChurnDraws)'
      BY <2>1, <2>4, <2>5 DEF DrawsBase
    <3> QED
      BY <1>2, <2>2, <2>3, <3>1, <3>2, ChurnDrawsInt
  <2>7. draws' = DrawsBase' + DrawsAt(pc', scn', i')
    BY <1>1, <1>3, <1>4, <2>1, <2>2, <2>6, DrawsAtPlaces
  <2> QED
    BY <1>5, <2>7
<1>21. CASE ChurnDone
  <2>1. /\ interval' = interval /\ nextID' = nextID
        /\ pc = "churn" /\ pc' = "pace" /\ draws' = draws
    BY <1>21 DEF ChurnDone, churnVars
  <2>9. pc' # "returned" => draws' = DrawsBase + DrawsAt(pc', scn', i')
    BY <1>1, <1>3, <1>4, <2>1, DrawsAtPlaces
  <2> QED
    BY <1>5, <1>6, <2>1, <2>9
<1>22. ASSUME NEW v \in Worker, WorkerEmit(v)
      PROVE  Goal
  <2>1. UNCHANGED <<pc, scn, i, interval, nextID, draws>>
    BY <1>22 DEF WorkerEmit, mainVars, churnVars
  <2> QED
    BY <1>4, <1>5, <1>6, <2>1
<1>23. ASSUME NEW v \in Worker, WorkerCount(v)
      PROVE  Goal
  <2>1. UNCHANGED <<pc, scn, i, interval, nextID, draws>>
    BY <1>23 DEF WorkerCount, mainVars, churnVars
  <2> QED
    BY <1>4, <1>5, <1>6, <2>1
<1>24. ASSUME NEW v \in Worker, WorkerDone(v)
      PROVE  Goal
  <2>1. UNCHANGED <<pc, scn, i, interval, nextID, draws>>
    BY <1>24 DEF WorkerDone, mainVars, churnVars
  <2> QED
    BY <1>4, <1>5, <1>6, <2>1
<1>25. CASE UNCHANGED <<pc, scn, i, interval, loaded, wpc, seed, wg, dataPoints,
                        progress, nextID, draws, sent>>
  BY <1>4, <1>5, <1>6, <1>25
<1> QED
  BY <1>7, <1>8, <1>9, <1>10, <1>11, <1>12, <1>13, <1>14, <1>15, <1>16,
     <1>17, <1>18, <1>19, <1>20, <1>21, <1>22, <1>23, <1>24, <1>25,
     CollectorKeeps
     DEF Next, MainNext, WorkerNext

LEMMA DrawsBeforeIs ==
    ASSUME NEW s
    PROVE  DrawsBefore(s) = DrawsBase + DrawsOfScenarios(s - 1) + 1
  BY DEF DrawsBefore, DrawsBase, DrawsOfScenarios, DrawsPerInterval

(* A worker is seeded where the walk over the scenarios is, and nothing that *)
(* the seed depends on changes while the worker runs.                        *)
LEMMA SeedsStep ==
    ASSUME RoundsInv, SeedsInv, [Next]_vars
    PROVE  SeedsIndependentOfSchedule'
<1>1. /\ TypeOK /\ wg \in SUBSET Worker /\ seed \in [Worker -> Nat]
      /\ \A w \in wg : w \in Worker /\ Spawned(w)
      /\ \A w \in wg : seed[w] = DrawsBefore(w[1]) + w[2] + 1
  BY DEF RoundsInv, BarrierInv, TypeOK, WorkerTypeOK, WaitGroupInv, SeedsInv,
         SeedsIndependentOfSchedule
<1> DEFINE Goal == SeedsIndependentOfSchedule'
<1>2. ASSUME interval' = interval, nextID' = nextID, wg' \subseteq wg,
             \A w \in wg : seed'[w] = seed[w]
      PROVE  Goal
  <2>1. ASSUME NEW w
        PROVE  DrawsBefore(w)' = DrawsBefore(w)
    BY <1>2 DEF DrawsBefore, ChurnDraws, IntervalDraws
  <2>2. \A w \in wg : DrawsBefore(w[1])' = DrawsBefore(w[1])
    BY <2>1
  <2> QED
    BY <1>1, <1>2, <2>2 DEF SeedsIndependentOfSchedule
<1>3. ASSUME pc \in {"churn", "pace"}, wg' = wg
      PROVE  Goal
  <2>1. wg' = {}
    BY <1>1, <1>3 DEF Spawned, Producing
  <2> QED
    BY <2>1 DEF SeedsIndependentOfSchedule
<1> SUFFICES Goal
  OBVIOUS
<1> HIDE DEF Goal
<1>4. CASE Start
  BY <1>2, <1>4 DEF Start, workerVars, churnVars
<1>5. CASE LoopCheck
  BY <1>2, <1>5 DEF LoopCheck, workerVars, churnVars
<1>6. CASE Pace
  BY <1>3, <1>6 DEF Pace, workerVars
<1>7. CASE ReportExit
  BY <1>2, <1>7 DEF ReportExit, workerVars, churnVars
<1>8. CASE AdvanceTemplate
  BY <1>2, <1>8 DEF AdvanceTemplate, workerVars, churnVars
<1>9. CASE AllScenariosStarted
  BY <1>2, <1>9 DEF AllScenariosStarted, workerVars, churnVars
<1>10. CASE EmitInline
  BY <1>2, <1>10 DEF EmitInline, workerVars, churnVars
<1>11. CASE LoadDataPoints
  BY <1>2, <1>11 DEF LoadDataPoints, workerVars, churnVars
<1>12. CASE StoreDataPoints
  BY <1>2, <1>12 DEF StoreDataPoints, workerVars, churnVars
<1>13. CASE InlineDone
  BY <1>2, <1>13 DEF InlineDone, workerVars, churnVars
<1>14. CASE SpawnWorker
  <2> DEFINE x == <<scn, i>>
  <2>1. /\ pc = "spawn" /\ i < Concurrency[scn]
        /\ interval' = interval /\ nextID' = nextID /\ wg' = wg \cup {x}
        /\ seed' = [seed EXCEPT ![x] = draws + 1]
    BY <1>14 DEF SpawnWorker, churnVars
  <2>2. scn \in Scenario /\ scn \in Int /\ i \in Nat
    BY <2>1 DEF RoundsInv, BarrierInv, PlacesInv, TypeOK, MainTypeOK,
                InScenario, Scenario
  <2>3. x \in Worker
    BY <2>1, <2>2, PairWorker
  <2>4. ASSUME NEW s
        PROVE  DrawsBefore(s)' = DrawsBefore(s)
    BY <2>1 DEF DrawsBefore, ChurnDraws, IntervalDraws
  <2>5. ASSUME NEW w \in wg'
        PROVE  seed'[w] = (DrawsBefore(w[1]) + w[2] + 1)'
    <3>1. DrawsBefore(w[1])' = DrawsBefore(w[1])
      BY <2>4
    <3>2. CASE w = x
      <4>1. w[1] = scn /\ w[2] = i
        BY <3>2
      <4>2. seed'[w] = draws + 1
        BY <1>1, <2>1, <2>3, <3>2
      <4>3. draws = DrawsBase + DrawsOfScenarios(scn - 1) + 1 + i
        <5>1. draws = DrawsBase + DrawsAt(pc, scn, i)
          BY <2>1 DEF SeedsInv, DrawsInv
        <5>2. DrawsAt(pc, scn, i) = DrawsOfScenarios(scn - 1) + 1 + i
          BY <2>1, DrawsAtPlaces
        <5>3. DrawsBase \in Int /\ DrawsOfScenarios(scn - 1) \in Int
          BY <1>1, <2>2, DrawsBaseInt, DrawsOfScenariosGrow
        <5> QED
          BY <2>2, <5>1, <5>2, <5>3
      <4>4. DrawsBefore(scn) = DrawsBase + DrawsOfScenarios(scn - 1) + 1
        BY DrawsBeforeIs
      <4>5. DrawsBase \in Int /\ DrawsOfScenarios(scn - 1) \in Int
        BY <1>1, <2>2, DrawsBaseInt, DrawsOfScenariosGrow
      <4>6. draws + 1 = DrawsBefore(scn) + i + 1
        BY <2>2, <4>3, <4>4, <4>5
      <4> QED
        BY <3>1, <4>1, <4>2, <4>6
    <3>3. CASE w # x
      <4>1. w \in wg /\ seed'[w] = seed[w]
        BY <1>1, <2>1, <3>3
      <4> QED
        BY <1>1, <3>1, <4>1
    <3> QED
      BY <3>2, <3>3
  <2> QED
    BY <2>5 DEF Goal, SeedsIndependentOfSchedule
<1>15. CASE SpawnDone
  BY <1>2, <1>15 DEF SpawnDone, workerVars, churnVars
<1>16. CASE WaitForWorkers
  BY <1>2, <1>16 DEF WaitForWorkers, workerVars, churnVars
<1>17. CASE ApplyChurn
  BY <1>3, <1>17 DEF ApplyChurn, workerVars
<1>18. CASE ChurnDone
  BY <1>2, <1>18 DEF ChurnDone, workerVars, churnVars
<1>19. ASSUME NEW v \in Worker, WorkerEmit(v)
      PROVE  Goal
  BY <1>2, <1>19 DEF WorkerEmit, mainVars, workerVars, churnVars
<1>20. ASSUME NEW v \in Worker, WorkerCount(v)
      PROVE  Goal
  BY <1>2, <1>20 DEF WorkerCount, mainVars, workerVars, churnVars
<1>21. ASSUME NEW v \in Worker, WorkerDone(v)
      PROVE  Goal
  BY <1>2, <1>21 DEF WorkerDone, mainVars, workerVars, churnVars
<1>22. CASE UNCHANGED <<pc, scn, i, interval, loaded, wpc, seed, wg, dataPoints,
                        progress, nextID, draws, sent>>
  BY <1>2, <1>22
<1> QED
  BY <1>4, <1>5, <1>6, <1>7, <1>8, <1>9, <1>10, <1>11, <1>12, <1>13, <1>14,
     <1>15, <1>16, <1>17, <1>18, <1>19, <1>20, <1>21, <1>22, CollectorKeeps
     DEF Next, MainNext, WorkerNext

LEMMA SeedsInvInit == Init => SeedsInv
<1> SUFFICES ASSUME Init PROVE SeedsInv
  OBVIOUS
<1>1. /\ pc = "created" /\ interval = 0 /\ draws = 0 /\ wg = {}
      /\ nextID = Scale
  BY DEF Init
<1>2. SumFunction(ChurnDraws) = 0
  <2>1. DOMAIN ChurnDraws = Scenario /\ \A s \in Scenario : ChurnDraws[s] = 0
    BY <1>1, ScaleAssumption DEF ChurnDraws
  <2> QED
    BY <2>1, ScenarioFinite, SumZero DEF SumFunction
<1>3. DrawsBase = 0
  BY <1>1, <1>2, DrawsOfScenariosGrow DEF DrawsBase
<1>4. DrawsInv
  BY <1>1, <1>3, DrawsAtPlaces DEF DrawsInv
<1> QED
  BY <1>1, <1>4 DEF SeedsInv, LoopInv, SeedsIndependentOfSchedule

THEOREM SeedsInvCorrect == Spec => []SeedsInv
<1>1. RoundsInv /\ SeedsInv /\ [Next]_vars => SeedsInv'
  BY LoopStep, DrawsStep, SeedsStep DEF SeedsInv
<1> QED
  BY <1>1, SeedsInvInit, RoundsInvCorrect, PTL DEF Spec

(* What a worker generates depends on the configuration, the interval and   *)
(* its number only: the seed baseRand gives it is the same in every          *)
(* interleaving (receiver.go:374, getNewRand).                               *)
THEOREM SeedsAreDeterministic == Spec => []SeedsIndependentOfSchedule
<1>1. SeedsInv => SeedsIndependentOfSchedule
  BY DEF SeedsInv
<1> QED
  BY <1>1, SeedsInvCorrect, PTL

-----------------------------------------------------------------------------
(* The data points of an interval                                            *)

(* The weight of an emission, and of a worker between its emission and the   *)
(* atomic addition that counts it.                                           *)
SentWeight(emitted) == [e \in Emitter |-> emitted[e] * Points[e[1]]]
WorkerWeight(places) ==
    [w \in Worker |-> IF places[w] = "count" THEN Points[w[1]] ELSE 0]
RoundWeight == [s \in Scenario |-> Scale[s] * Points[s]]

SentPoints == SumFunction(SentWeight(sent))
WorkersInFlight == SumFunction(WorkerWeight(wpc))
RoundPoints == SumFunction(RoundWeight)

(* The inductive invariant behind the total: what was emitted is counted or  *)
(* about to be, nobody changed the counter since the inline loop read it,    *)
(* and the progress is that of the complete intervals.                       *)
CountsAt(p, s, counted, register, total, complete, emitted, uncounted) ==
    /\ p \in Producing =>
         counted + (IF p \in {"load", "store"} THEN Points[s] ELSE 0)
                 + uncounted = emitted
    /\ p = "store" => register = counted
    /\ p \in {"churn", "pace", "returned"} => total = complete + emitted
    /\ p \in Producing \cup {"created", "check", "exiting"} => total = complete

CountInv ==
    CountsAt(pc, scn, dataPoints, loaded, progress, interval * RoundPoints,
             SentPoints, WorkersInFlight)

(* Scenarios without workers come before those with workers.  Otherwise the  *)
(* inline loop adds to the counter while workers of an earlier scenario do,  *)
(* and updates are lost (receiver.go:367, 381; run GeneratorLostUpdate).     *)
InlineFirst ==
    \A s, t \in Scenario :
        s < t /\ Concurrency[s] # 0 => Concurrency[t] # 0

LEMMA EmitterFinite == IsFiniteSet(Emitter) /\ IsFiniteSet(Worker)
<1>1. NumScenarios \in 0 .. NumScenarios /\ NumScenarios \in Nat
  BY NumScenariosAssumption
<1>2. Scale \in [1 .. NumScenarios -> Nat]
  BY ScaleAssumption DEF Scenario
<1>3. Concurrency \in [1 .. NumScenarios -> Nat]
  BY ConcurrencyAssumption DEF Scenario
<1> QED
  BY <1>1, <1>2, <1>3, EmitterIsBlock, WorkerIsBlock, BlockFinite

LEMMA EmitterPair ==
    ASSUME NEW e \in Emitter
    PROVE  e[1] \in Scenario
  BY DEF Emitter

LEMMA SentWeightInt ==
    ASSUME NEW emitted \in [Emitter -> Nat]
    PROVE  /\ \A e \in Emitter : SentWeight(emitted)[e] \in Int
           /\ SumFunction(SentWeight(emitted)) =
                  SumFunctionOnSet(SentWeight(emitted), Emitter)
           /\ SumFunction(SentWeight(emitted)) \in Int
<1>1. ASSUME NEW e \in Emitter
      PROVE  SentWeight(emitted)[e] \in Int
  <2>1. SentWeight(emitted)[e] = emitted[e] * Points[e[1]]
    BY DEF SentWeight
  <2>2. PICK x \in Nat, c \in Nat : x = emitted[e] /\ c = Points[e[1]]
    BY EmitterPair, PointsAssumption
  <2> QED
    BY <2>1, <2>2
<1>2. DOMAIN SentWeight(emitted) = Emitter
  BY DEF SentWeight
<1> QED
  BY <1>1, <1>2, EmitterFinite, SumType DEF SumFunction

LEMMA WorkerWeightInt ==
    ASSUME NEW places
    PROVE  /\ \A w \in Worker : WorkerWeight(places)[w] \in Int
           /\ SumFunction(WorkerWeight(places)) =
                  SumFunctionOnSet(WorkerWeight(places), Worker)
           /\ SumFunction(WorkerWeight(places)) \in Int
<1>1. \A w \in Worker : WorkerWeight(places)[w] \in Int
  BY WorkerPair, PointsAssumption DEF WorkerWeight
<1>2. DOMAIN WorkerWeight(places) = Worker
  BY DEF WorkerWeight
<1> QED
  BY <1>1, <1>2, EmitterFinite, SumType DEF SumFunction

LEMMA RoundPointsInt == RoundPoints \in Int
<1>1. ASSUME NEW s \in Scenario
      PROVE  RoundWeight[s] \in Int
  <2>1. RoundWeight[s] = Scale[s] * Points[s]
    BY DEF RoundWeight
  <2>2. PICK x \in Nat, c \in Nat : x = Scale[s] /\ c = Points[s]
    BY ScaleAssumption, PointsAssumption
  <2> QED
    BY <2>1, <2>2
<1>2. DOMAIN RoundWeight = Scenario
  BY DEF RoundWeight
<1> QED
  BY <1>1, <1>2, ScenarioFinite, SumType DEF RoundPoints, SumFunction

(* An emission adds the data points of its scenario's template.              *)
LEMMA EmissionAdds ==
    ASSUME NEW h \in [Emitter -> Nat], NEW e \in Emitter
    PROVE  SumFunction(SentWeight([h EXCEPT ![e] = @ + 1])) =
               SumFunction(SentWeight(h)) + Points[e[1]]
<1> DEFINE k == [h EXCEPT ![e] = @ + 1]
           f == SentWeight(h)
           g == SentWeight(k)
<1>1. k \in [Emitter -> Nat] /\ k[e] = h[e] + 1
  BY Incremented
<1>2. \A x \in Emitter : x # e => k[x] = h[x]
  OBVIOUS
<1> HIDE DEF k
<1>3. \A x \in Emitter : /\ f[x] = h[x] * Points[x[1]]
                         /\ g[x] = k[x] * Points[x[1]]
  BY DEF SentWeight
<1>4. /\ \A x \in Emitter : f[x] \in Int
      /\ SumFunction(f) = SumFunctionOnSet(f, Emitter)
      /\ \A x \in Emitter : g[x] \in Int
      /\ SumFunction(g) = SumFunctionOnSet(g, Emitter)
  BY <1>1, SentWeightInt
<1> HIDE DEF f, g
<1>5. \A x \in Emitter : x # e => g[x] = f[x]
  BY <1>2, <1>3
<1>6. g[e] - f[e] = Points[e[1]]
  <2>1. PICK x \in Nat, c \in Nat : x = h[e] /\ c = Points[e[1]]
    BY EmitterPair, PointsAssumption
  <2>2. f[e] = x * c /\ g[e] = (x + 1) * c
    BY <1>1, <1>3, <2>1
  <2>3. (x + 1) * c = x * c + c /\ x * c \in Int
    OBVIOUS
  <2> QED
    BY <2>1, <2>2, <2>3
<1>7. SumFunctionOnSet(g, Emitter) =
          SumFunctionOnSet(f, Emitter) + (g[e] - f[e])
  BY <1>4, <1>5, EmitterFinite, SumChange
<1>8. SumFunction(g) = SumFunction(f) + Points[e[1]]
  BY <1>4, <1>6, <1>7
<1> QED
  BY <1>8 DEF f, g, k

(* A worker that moves takes its weight along.                               *)
Weight(place, w) == IF place = "count" THEN Points[w[1]] ELSE 0

LEMMA WorkerMoves ==
    ASSUME NEW h, DOMAIN h = Worker, NEW w \in Worker, NEW place
    PROVE  SumFunction(WorkerWeight([h EXCEPT ![w] = place])) =
               SumFunction(WorkerWeight(h)) + (Weight(place, w) - Weight(h[w], w))
<1> DEFINE k == [h EXCEPT ![w] = place]
           f == WorkerWeight(h)
           g == WorkerWeight(k)
<1>1. k[w] = place /\ \A v \in Worker : v # w => k[v] = h[v]
  OBVIOUS
<1> HIDE DEF k
<1>2. \A v \in Worker : f[v] = Weight(h[v], v) /\ g[v] = Weight(k[v], v)
  BY DEF WorkerWeight, Weight
<1>3. /\ \A v \in Worker : f[v] \in Int /\ g[v] \in Int
      /\ SumFunction(f) = SumFunctionOnSet(f, Worker)
      /\ SumFunction(g) = SumFunctionOnSet(g, Worker)
  BY WorkerWeightInt
<1> HIDE DEF f, g
<1>4. \A v \in Worker : v # w => g[v] = f[v]
  BY <1>1, <1>2
<1>5. g[w] = Weight(place, w) /\ f[w] = Weight(h[w], w)
  BY <1>1, <1>2
<1>6. SumFunctionOnSet(g, Worker) =
          SumFunctionOnSet(f, Worker) + (g[w] - f[w])
  BY <1>3, <1>4, EmitterFinite, SumChange
<1> QED
  BY <1>3, <1>5, <1>6 DEF f, g, k

LEMMA NoneInFlight ==
    ASSUME BarrierInv, wg = {}
    PROVE  WorkersInFlight = 0
<1>1. \A w \in Worker : wpc[w] = "idle"
  BY DEF BarrierInv, WaitGroupInv
<1>2. \A w \in Worker : WorkerWeight(wpc)[w] = 0
  BY <1>1 DEF WorkerWeight
<1> QED
  BY <1>2, EmitterFinite, WorkerWeightInt, SumZero DEF WorkersInFlight

LEMMA NothingWeighs == SumFunction(SentWeight(NothingSent)) = 0
<1>1. NothingSent \in [Emitter -> Nat]
  BY DEF NothingSent
<1>2. ASSUME NEW e \in Emitter
      PROVE  SentWeight(NothingSent)[e] = 0
  <2>1. PICK c \in Nat : c = Points[e[1]]
    BY EmitterPair, PointsAssumption
  <2>2. SentWeight(NothingSent)[e] = 0 * c
    BY <2>1 DEF SentWeight, NothingSent
  <2> QED
    BY <2>2
<1> QED
  BY <1>1, <1>2, EmitterFinite, SentWeightInt, SumZero

(* A complete round weighs what the scenarios weigh together.                *)
LEMMA EverythingWeighs == SumFunction(SentWeight(EverythingSent)) = RoundPoints
<1> DEFINE f == SentWeight(EverythingSent)
           g == RoundWeight
<1>1. EverythingSent \in [Emitter -> Nat]
  BY DEF EverythingSent
<1>2. SumFunction(f) = SumFunctionOnSet(f, Emitter)
  BY <1>1, SentWeightInt
<1>3. ASSUME NEW e \in Emitter
      PROVE  f[e] = Points[e[1]]
  <2>1. PICK c \in Nat : c = Points[e[1]]
    BY EmitterPair, PointsAssumption
  <2>2. f[e] = 1 * c
    BY <2>1 DEF SentWeight, EverythingSent
  <2> QED
    BY <2>1, <2>2
<1>4. DOMAIN g = 1 .. NumScenarios
  BY DEF RoundWeight, Scenario
<1>5. \A s \in 1 .. NumScenarios : g[s] = Scale[s] * Points[s]
  BY DEF RoundWeight, Scenario
<1> HIDE DEF f, g
<1>6. /\ NumScenarios \in Nat /\ Scale \in [1 .. NumScenarios -> Nat]
      /\ Points \in [1 .. NumScenarios -> Int]
  BY NumScenariosAssumption, ScaleAssumption, PointsAssumption DEF Scenario
<1>7. \A e \in Block(Scale, NumScenarios) : f[e] = Points[e[1]]
  BY <1>3, EmitterIsBlock
<1>8. SumFunctionOnSet(f, Block(Scale, NumScenarios)) =
          SumFunctionOnSet(g, 1 .. NumScenarios)
  <2>1. BlockWeights(NumScenarios, Scale, Points, f, g)
    BY <1>5, <1>6, <1>7 DEF BlockWeights
  <2> QED
    BY <1>6, <2>1, BlockSum
<1> QED
  BY <1>2, <1>4, <1>8, EmitterIsBlock DEF f, g, RoundPoints, SumFunction

(* While the inline loop runs, no worker does.                               *)
LEMMA InlineAlone ==
    ASSUME InlineFirst, RoundsInv, pc \in InlinePC
    PROVE  wg = {}
<1>1. scn \in Scenario /\ Concurrency[scn] = 0
  BY DEF RoundsInv, BarrierInv, PlacesInv, ModeInv, InlinePC, InScenario
<1>2. ASSUME NEW w \in wg PROVE FALSE
  <2>1. w \in Worker /\ w[1] < scn
    BY <1>2 DEF RoundsInv, BarrierInv, TypeOK, WorkerTypeOK, WaitGroupInv,
                Spawned, InlinePC
  <2>2. w[1] \in Scenario /\ Concurrency[w[1]] # 0
    BY <2>1, WorkerPair, ConcurrencyAssumption
  <2> QED
    BY <1>1, <2>1, <2>2 DEF InlineFirst
<1> QED
  BY <1>2

LEMMA CountStep ==
    ASSUME InlineFirst, RoundsInv, CountInv, [Next]_vars
    PROVE  CountInv'
<1>1. /\ pc \in MainPC /\ scn \in 1 .. (NumScenarios + 1)
      /\ dataPoints \in Nat /\ loaded \in Nat /\ progress \in Nat
      /\ pc \in InScenario => scn \in Scenario
      /\ sent \in [Emitter -> Nat] /\ DOMAIN wpc = Worker
      /\ interval \in Int
  BY NumIntervalsAssumption
     DEF RoundsInv, BarrierInv, TypeOK, MainTypeOK, WorkerTypeOK, DataTypeOK,
         PlacesInv
<1>2. \A s \in Scenario : Points[s] \in Nat
  BY PointsAssumption
<1>3. /\ SentPoints \in Int /\ WorkersInFlight \in Int /\ RoundPoints \in Int
  BY <1>1, SentWeightInt, WorkerWeightInt, RoundPointsInt
     DEF SentPoints, WorkersInFlight
<1>4. PICK q \in Int : q = interval * RoundPoints
  BY <1>1, <1>3
<1>5. CountsAt(pc, scn, dataPoints, loaded, progress, q, SentPoints,
               WorkersInFlight)
  BY <1>4 DEF CountInv
<1> DEFINE Goal == CountInv'
<1>6. ASSUME NEW qq, qq = interval' * RoundPoints,
             CountsAt(pc', scn', dataPoints', loaded', progress', qq,
                      SentPoints', WorkersInFlight')
      PROVE  Goal
  BY <1>6 DEF CountInv, CountsAt, RoundPoints, RoundWeight
<1>7. ASSUME interval' = interval,
             CountsAt(pc', scn', dataPoints', loaded', progress', q,
                      SentPoints', WorkersInFlight')
      PROVE  Goal
  BY <1>4, <1>6, <1>7
<1>8. sent' = sent => SentPoints' = SentPoints
  BY DEF SentPoints, SentWeight
<1>9. wpc' = wpc => WorkersInFlight' = WorkersInFlight
  BY DEF WorkersInFlight, WorkerWeight
<1>10. wg = {} => WorkersInFlight = 0
  BY NoneInFlight DEF RoundsInv
<1>11. pc \notin Producing => wg = {}
  BY DEF RoundsInv, BarrierInv, TypeOK, WorkerTypeOK, WaitGroupInv, Spawned,
         Producing
<1>12. /\ pc \in {"created", "check", "exiting"} => SentPoints = 0
       /\ pc \in {"churn", "pace"} => SentPoints = RoundPoints
  BY RoundBoundary, NothingWeighs, EverythingWeighs DEF SentPoints
<1>13. ASSUME NEW v \in Worker, wpc[v] # "idle"
       PROVE  pc \in Producing /\ pc \notin InlinePC
  <2>1. v \in wg
    BY <1>13 DEF RoundsInv, BarrierInv, WaitGroupInv
  <2> QED
    BY <1>11, <2>1, InlineAlone
<1> SUFFICES Goal
  OBVIOUS
<1> HIDE DEF Goal
<1>14. CASE Start
  <2>1. /\ interval' = interval /\ sent' = sent /\ wpc' = wpc
        /\ pc = "created" /\ pc' = "check" /\ scn' = scn
        /\ UNCHANGED <<dataPoints, loaded, progress>>
    BY <1>14 DEF Start, workerVars, countVars
  <2>9. CountsAt(pc', scn', dataPoints', loaded', progress', q,
                 SentPoints', WorkersInFlight')
    BY <1>1, <1>2, <1>3, <1>5, <1>8, <1>9, <2>1
       DEF CountsAt, Producing, InScenario
  <2> QED
    BY <1>7, <2>1, <2>9
<1>15. CASE LoopCheck
  <2>1. /\ interval' = interval /\ sent' = sent /\ wpc' = wpc
        /\ pc = "check" /\ UNCHANGED <<loaded, progress>>
        /\ \/ pc' = "advance" /\ scn' = 1 /\ dataPoints' = 0
           \/ pc' \in {"exiting", "returned"} /\ dataPoints' = dataPoints
    BY <1>15 DEF LoopCheck, workerVars, countVars
  <2>9. CountsAt(pc', scn', dataPoints', loaded', progress', q,
                 SentPoints', WorkersInFlight')
    BY <1>1, <1>2, <1>3, <1>5, <1>8, <1>9, <1>10, <1>11, <1>12, <2>1
       DEF CountsAt, Producing, InScenario
  <2> QED
    BY <1>7, <2>1, <2>9
<1>16. CASE Pace
  <2>1. CASE pc' = "returned"
    <3>1. /\ interval' = interval /\ sent' = sent /\ pc = "pace"
          /\ progress' = progress
      BY <1>16, <2>1 DEF Pace, countVars
    <3>2. CountsAt(pc', scn', dataPoints', loaded', progress', q,
                   SentPoints', WorkersInFlight')
      BY <1>5, <1>8, <2>1, <3>1 DEF CountsAt, Producing
    <3> QED
      BY <1>7, <3>1, <3>2
  <2>2. CASE pc' # "returned"
    <3>1. /\ interval' = interval + 1 /\ pc = "pace" /\ pc' = "check"
          /\ progress' = progress
      BY <1>16, <2>2 DEF Pace, countVars
    <3>2. q + RoundPoints = interval' * RoundPoints
      <4>1. (interval + 1) * RoundPoints = interval * RoundPoints + RoundPoints
        BY <1>1, <1>3
      <4> QED
        BY <1>4, <3>1, <4>1
    <3>3. CountsAt(pc', scn', dataPoints', loaded', progress', q + RoundPoints,
                   SentPoints', WorkersInFlight')
      BY <1>5, <1>12, <3>1 DEF CountsAt, Producing
    <3> QED
      BY <1>6, <3>2, <3>3
  <2> QED
    BY <2>1, <2>2
<1>17. CASE ReportExit
  <2>1. /\ interval' = interval /\ sent' = sent /\ wpc' = wpc
        /\ pc = "exiting" /\ pc' = "returned"
        /\ UNCHANGED <<dataPoints, loaded, progress>>
    BY <1>17 DEF ReportExit, workerVars, countVars
  <2>9. CountsAt(pc', scn', dataPoints', loaded', progress', q,
                 SentPoints', WorkersInFlight')
    BY <1>1, <1>2, <1>3, <1>5, <1>8, <1>9, <1>12, <2>1
       DEF CountsAt, Producing, InScenario
  <2> QED
    BY <1>7, <2>1, <2>9
<1>18. CASE AdvanceTemplate
  <2>1. /\ interval' = interval /\ sent' = sent /\ wpc' = wpc
        /\ pc = "advance" /\ pc' \in {"inline", "spawn"} /\ scn' = scn
        /\ UNCHANGED <<dataPoints, loaded, progress>>
    BY <1>18 DEF AdvanceTemplate, workerVars, countVars
  <2>9. CountsAt(pc', scn', dataPoints', loaded', progress', q,
                 SentPoints', WorkersInFlight')
    BY <1>1, <1>2, <1>3, <1>5, <1>8, <1>9, <2>1
       DEF CountsAt, Producing, InScenario
  <2> QED
    BY <1>7, <2>1, <2>9
<1>19. CASE AllScenariosStarted
  <2>1. /\ interval' = interval /\ sent' = sent /\ wpc' = wpc
        /\ pc = "advance" /\ pc' = "wait" /\ scn' = scn
        /\ UNCHANGED <<dataPoints, loaded, progress>>
    BY <1>19 DEF AllScenariosStarted, workerVars, countVars
  <2>9. CountsAt(pc', scn', dataPoints', loaded', progress', q,
                 SentPoints', WorkersInFlight')
    BY <1>1, <1>2, <1>3, <1>5, <1>8, <1>9, <2>1
       DEF CountsAt, Producing, InScenario
  <2> QED
    BY <1>7, <2>1, <2>9
<1>20. CASE EmitInline
  <2> DEFINE x == <<scn, i>>
  <2>1. /\ interval' = interval /\ wpc' = wpc
        /\ pc = "inline" /\ pc' = "load" /\ scn' = scn /\ i < Scale[scn]
        /\ sent' = [sent EXCEPT ![x] = @ + 1]
        /\ UNCHANGED <<dataPoints, loaded, progress>>
    BY <1>20 DEF EmitInline, workerVars, countVars
  <2>2. scn \in Scenario /\ i \in Nat
    BY <1>1, <2>1 DEF InScenario, RoundsInv, BarrierInv, TypeOK, MainTypeOK
  <2>3. x \in Emitter /\ x[1] = scn
    <3>1. i \in Slots(scn)
      BY <2>1, <2>2, ScaleAssumption DEF Slots
    <3> QED
      BY <2>2, <3>1 DEF Emitter
  <2>4. SentPoints' = SumFunction(SentWeight([sent EXCEPT ![x] = @ + 1]))
    BY <2>1 DEF SentPoints, SentWeight
  <2> HIDE DEF x
  <2>5. SentPoints' = SentPoints + Points[scn]
    BY <1>1, <2>3, <2>4, EmissionAdds DEF SentPoints
  <2>6. Points[scn] \in Nat
    BY <1>2, <2>2
  <2>9. CountsAt(pc', scn', dataPoints', loaded', progress', q,
                 SentPoints', WorkersInFlight')
    BY <1>1, <1>3, <1>5, <1>9, <2>1, <2>5, <2>6 DEF CountsAt, Producing
  <2> QED
    BY <1>7, <2>1, <2>9
<1>21. CASE LoadDataPoints
  <2>1. /\ interval' = interval /\ sent' = sent /\ wpc' = wpc
        /\ pc = "load" /\ pc' = "store" /\ scn' = scn
        /\ loaded' = dataPoints /\ UNCHANGED <<dataPoints, progress>>
    BY <1>21 DEF LoadDataPoints, workerVars, countVars
  <2>9. CountsAt(pc', scn', dataPoints', loaded', progress', q,
                 SentPoints', WorkersInFlight')
    BY <1>1, <1>2, <1>3, <1>5, <1>8, <1>9, <2>1
       DEF CountsAt, Producing, InScenario
  <2> QED
    BY <1>7, <2>1, <2>9
<1>22. CASE StoreDataPoints
  <2>1. /\ interval' = interval /\ sent' = sent /\ wpc' = wpc
        /\ pc = "store" /\ pc' = "inline" /\ scn' = scn
        /\ dataPoints' = loaded + Points[scn] /\ progress' = progress
    BY <1>22 DEF StoreDataPoints, workerVars, countVars
  <2>9. CountsAt(pc', scn', dataPoints', loaded', progress', q,
                 SentPoints', WorkersInFlight')
    BY <1>1, <1>2, <1>3, <1>5, <1>8, <1>9, <2>1
       DEF CountsAt, Producing, InScenario
  <2> QED
    BY <1>7, <2>1, <2>9
<1>23. CASE InlineDone
  <2>1. /\ interval' = interval /\ sent' = sent /\ wpc' = wpc
        /\ pc = "inline" /\ pc' = "advance"
        /\ UNCHANGED <<dataPoints, loaded, progress>>
    BY <1>23 DEF InlineDone, workerVars, countVars
  <2>9. CountsAt(pc', scn', dataPoints', loaded', progress', q,
                 SentPoints', WorkersInFlight')
    BY <1>1, <1>2, <1>3, <1>5, <1>8, <1>9, <2>1
       DEF CountsAt, Producing, InScenario
  <2> QED
    BY <1>7, <2>1, <2>9
<1>24. CASE SpawnWorker
  <2> DEFINE x == <<scn, i>>
  <2>1. /\ interval' = interval /\ sent' = sent
        /\ pc = "spawn" /\ pc' = "spawn" /\ scn' = scn /\ i < Concurrency[scn]
        /\ wpc' = [wpc EXCEPT ![x] = "emit"]
        /\ UNCHANGED <<dataPoints, loaded, progress>>
    BY <1>24 DEF SpawnWorker, countVars
  <2>2. x \in Worker /\ wpc[x] = "idle"
    <3>1. scn \in Scenario /\ i \in Nat
      BY <1>1, <2>1 DEF InScenario, RoundsInv, BarrierInv, TypeOK, MainTypeOK
    <3>2. x \in Worker
      BY <2>1, <3>1, PairWorker
    <3>3. ~Spawned(x)
      BY <2>1, <3>1 DEF Spawned, Scenario
    <3> QED
      BY <3>2, <3>3 DEF RoundsInv, BarrierInv, WaitGroupInv
  <2>3. WorkersInFlight' = SumFunction(WorkerWeight([wpc EXCEPT ![x] = "emit"]))
    BY <2>1 DEF WorkersInFlight, WorkerWeight
  <2> HIDE DEF x
  <2>4. WorkersInFlight' = WorkersInFlight +
            (Weight("emit", x) - Weight(wpc[x], x))
    BY <1>1, <2>2, <2>3, WorkerMoves DEF WorkersInFlight
  <2>5. WorkersInFlight' = WorkersInFlight
    BY <1>3, <2>2, <2>4 DEF Weight
  <2>9. CountsAt(pc', scn', dataPoints', loaded', progress', q,
                 SentPoints', WorkersInFlight')
    BY <1>1, <1>3, <1>5, <1>8, <2>1, <2>5 DEF CountsAt, Producing
  <2> QED
    BY <1>7, <2>1, <2>9
<1>25. CASE SpawnDone
  <2>1. /\ interval' = interval /\ sent' = sent /\ wpc' = wpc
        /\ pc = "spawn" /\ pc' = "advance"
        /\ UNCHANGED <<dataPoints, loaded, progress>>
    BY <1>25 DEF SpawnDone, workerVars, countVars
  <2>9. CountsAt(pc', scn', dataPoints', loaded', progress', q,
                 SentPoints', WorkersInFlight')
    BY <1>1, <1>2, <1>3, <1>5, <1>8, <1>9, <2>1
       DEF CountsAt, Producing, InScenario
  <2> QED
    BY <1>7, <2>1, <2>9
<1>26. CASE WaitForWorkers
  <2>1. /\ interval' = interval /\ sent' = sent /\ wpc' = wpc
        /\ pc = "wait" /\ pc' = "churn" /\ wg = {}
        /\ progress' = progress + dataPoints /\ dataPoints' = dataPoints
    BY <1>26 DEF WaitForWorkers, workerVars, countVars
  <2>9. CountsAt(pc', scn', dataPoints', loaded', progress', q,
                 SentPoints', WorkersInFlight')
    BY <1>1, <1>2, <1>3, <1>5, <1>8, <1>9, <1>10, <2>1
       DEF CountsAt, Producing, InScenario
  <2> QED
    BY <1>7, <2>1, <2>9
<1>27. CASE ApplyChurn
  <2>1. /\ interval' = interval /\ sent' = sent /\ wpc' = wpc
        /\ pc = "churn" /\ pc' = "churn"
        /\ UNCHANGED <<dataPoints, loaded, progress>>
    BY <1>27 DEF ApplyChurn, workerVars, countVars
  <2>9. CountsAt(pc', scn', dataPoints', loaded', progress', q,
                 SentPoints', WorkersInFlight')
    BY <1>1, <1>2, <1>3, <1>5, <1>8, <1>9, <2>1
       DEF CountsAt, Producing, InScenario
  <2> QED
    BY <1>7, <2>1, <2>9
<1>28. CASE ChurnDone
  <2>1. /\ interval' = interval /\ sent' = sent /\ wpc' = wpc
        /\ pc = "churn" /\ pc' = "pace"
        /\ UNCHANGED <<dataPoints, loaded, progress>>
    BY <1>28 DEF ChurnDone, workerVars, countVars
  <2>9. CountsAt(pc', scn', dataPoints', loaded', progress', q,
                 SentPoints', WorkersInFlight')
    BY <1>1, <1>2, <1>3, <1>5, <1>8, <1>9, <2>1
       DEF CountsAt, Producing, InScenario
  <2> QED
    BY <1>7, <2>1, <2>9
<1>29. ASSUME NEW v \in Worker, WorkerEmit(v)
      PROVE  Goal
  <2>1. /\ interval' = interval /\ UNCHANGED <<pc, scn, loaded, progress>>
        /\ wpc[v] = "emit" /\ wpc' = [wpc EXCEPT ![v] = "count"]
        /\ j[v] < PerWorker(v) /\ dataPoints' = dataPoints
        /\ sent' = [sent EXCEPT ![<<v[1], SlotOf(v, j[v])>>] = @ + 1]
    BY <1>29 DEF WorkerEmit, mainVars, countVars
  <2>2. pc \in Producing /\ pc \notin InlinePC
    BY <1>13, <2>1
  <2>3. WorkersInFlight' = WorkersInFlight +
            (Weight("count", v) - Weight(wpc[v], v))
    <3>1. WorkersInFlight' =
              SumFunction(WorkerWeight([wpc EXCEPT ![v] = "count"]))
      BY <2>1 DEF WorkersInFlight, WorkerWeight
    <3> QED
      BY <1>1, <3>1, WorkerMoves DEF WorkersInFlight
  <2>4. Points[v[1]] \in Nat
    BY <1>2, WorkerPair
  <2>5. WorkersInFlight' = WorkersInFlight + Points[v[1]]
    BY <1>3, <2>1, <2>3, <2>4 DEF Weight
  <2>6. SentPoints' = SentPoints + Points[v[1]]
    <3> DEFINE x == <<v[1], SlotOf(v, j[v])>>
    <3>1. j[v] \in Turns(v)
      BY <2>1, Share
         DEF Turns, RoundsInv, BarrierInv, TypeOK, WorkerTypeOK
    <3>2. x \in Emitter /\ x[1] = v[1]
      BY <3>1, SlotOfTurn
    <3>3. SentPoints' = SumFunction(SentWeight([sent EXCEPT ![x] = @ + 1]))
      BY <2>1 DEF SentPoints, SentWeight
    <3> HIDE DEF x
    <3> QED
      BY <1>1, <3>2, <3>3, EmissionAdds DEF SentPoints
  <2>9. CountsAt(pc', scn', dataPoints', loaded', progress', q,
                 SentPoints', WorkersInFlight')
    BY <1>1, <1>3, <1>5, <2>1, <2>2, <2>4, <2>5, <2>6
       DEF CountsAt, Producing, InlinePC
  <2> QED
    BY <1>7, <2>1, <2>9
<1>30. ASSUME NEW v \in Worker, WorkerCount(v)
      PROVE  Goal
  <2>1. /\ interval' = interval /\ UNCHANGED <<pc, scn, loaded, progress>>
        /\ wpc[v] = "count" /\ wpc' = [wpc EXCEPT ![v] = "emit"]
        /\ sent' = sent /\ dataPoints' = dataPoints + Points[v[1]]
    BY <1>30 DEF WorkerCount, mainVars, countVars
  <2>2. pc \in Producing /\ pc \notin InlinePC
    BY <1>13, <2>1
  <2>3. WorkersInFlight' = WorkersInFlight +
            (Weight("emit", v) - Weight(wpc[v], v))
    <3>1. WorkersInFlight' =
              SumFunction(WorkerWeight([wpc EXCEPT ![v] = "emit"]))
      BY <2>1 DEF WorkersInFlight, WorkerWeight
    <3> QED
      BY <1>1, <3>1, WorkerMoves DEF WorkersInFlight
  <2>4. Points[v[1]] \in Nat
    BY <1>2, WorkerPair
  <2>5. WorkersInFlight' = WorkersInFlight - Points[v[1]]
    BY <1>3, <2>1, <2>3, <2>4 DEF Weight
  <2>6. SentPoints' = SentPoints
    BY <1>8, <2>1
  <2>9. CountsAt(pc', scn', dataPoints', loaded', progress', q,
                 SentPoints', WorkersInFlight')
    BY <1>1, <1>3, <1>5, <2>1, <2>2, <2>4, <2>5, <2>6
       DEF CountsAt, Producing, InlinePC
  <2> QED
    BY <1>7, <2>1, <2>9
<1>31. ASSUME NEW v \in Worker, WorkerDone(v)
      PROVE  Goal
  <2>1. /\ interval' = interval /\ UNCHANGED <<pc, scn, loaded, progress>>
        /\ wpc[v] = "emit" /\ wpc' = [wpc EXCEPT ![v] = "idle"]
        /\ sent' = sent /\ dataPoints' = dataPoints
    BY <1>31 DEF WorkerDone, mainVars, countVars
  <2>2. pc \in Producing /\ pc \notin InlinePC
    BY <1>13, <2>1
  <2>3. WorkersInFlight' = WorkersInFlight +
            (Weight("idle", v) - Weight(wpc[v], v))
    <3>1. WorkersInFlight' =
              SumFunction(WorkerWeight([wpc EXCEPT ![v] = "idle"]))
      BY <2>1 DEF WorkersInFlight, WorkerWeight
    <3> QED
      BY <1>1, <3>1, WorkerMoves DEF WorkersInFlight
  <2>4. Points[v[1]] \in Nat
    BY <1>2, WorkerPair
  <2>5. WorkersInFlight' = WorkersInFlight
    BY <1>3, <2>1, <2>3, <2>4 DEF Weight
  <2>6. SentPoints' = SentPoints
    BY <1>8, <2>1
  <2>9. CountsAt(pc', scn', dataPoints', loaded', progress', q,
                 SentPoints', WorkersInFlight')
    BY <1>1, <1>3, <1>5, <2>1, <2>2, <2>4, <2>5, <2>6
       DEF CountsAt, Producing, InlinePC
  <2> QED
    BY <1>7, <2>1, <2>9
<1>32. CASE UNCHANGED <<pc, scn, i, interval, loaded, wpc, seed, wg, dataPoints,
                        progress, nextID, draws, sent>>
  <2>1. CountsAt(pc', scn', dataPoints', loaded', progress', q,
                 SentPoints', WorkersInFlight')
    BY <1>5, <1>8, <1>9, <1>32
  <2> QED
    BY <1>7, <2>1, <1>32
<1> QED
  BY <1>14, <1>15, <1>16, <1>17, <1>18, <1>19, <1>20, <1>21, <1>22, <1>23,
     <1>24, <1>25, <1>26, <1>27, <1>28, <1>29, <1>30, <1>31, <1>32,
     CollectorKeeps
     DEF Next, MainNext, WorkerNext

LEMMA CountInvInit == Init => CountInv
<1> SUFFICES ASSUME Init PROVE CountInv
  OBVIOUS
<1>1. pc = "created" /\ interval = 0 /\ progress = 0
  BY DEF Init
<1>2. 0 * RoundPoints = 0
  BY RoundPointsInt
<1> QED
  BY <1>1, <1>2 DEF CountInv, CountsAt, Producing

LEMMA CountsBetweenIntervals ==
    ASSUME RoundsInv, CountInv
    PROVE  CountsEveryDataPoint
<1>1. EmittedPoints = interval * RoundPoints + SentPoints
  BY DEF EmittedPoints, RoundPoints, RoundWeight, SentPoints, SentWeight
<1>2. pc \in {"check", "exiting"} => SentPoints = 0
  BY RoundBoundary, NothingWeighs DEF SentPoints
<1>3. interval * RoundPoints \in Int
  <2>1. interval \in Int
    BY NumIntervalsAssumption DEF RoundsInv, BarrierInv, TypeOK, MainTypeOK
  <2> QED
    BY <2>1, RoundPointsInt
<1> QED
  BY <1>1, <1>2, <1>3 DEF CountInv, CountsAt, CountsEveryDataPoint

(* No data point is lost or counted twice by the workers' atomic additions   *)
(* and the plain addition of the inline loop, as long as the two do not run  *)
(* at the same time: between two intervals the progress is exactly what the  *)
(* consumer was given (receiver.go:367, 381, 238).                           *)
THEOREM NothingMiscounted ==
    ASSUME InlineFirst
    PROVE  Spec => []CountsEveryDataPoint
<1>1. RoundsInv /\ CountInv /\ [Next]_vars => CountInv'
  BY CountStep
<1>2. RoundsInv /\ CountInv => CountsEveryDataPoint
  BY CountsBetweenIntervals
<1> QED
  BY <1>1, <1>2, CountInvInit, RoundsInvCorrect, PTL DEF Spec

=============================================================================
