------------------------------ MODULE Optimizer ------------------------------
(***************************************************************************)
(* The optimizer (optimizer.c): it back-tests every combination of the     *)
(* parameters to optimise, or lets a genetic algorithm choose them.  One   *)
(* thread does the work, as the build files enable neither OpenMP nor MPI; *)
(* another one may ask it to stop.                                         *)
(*                                                                         *)
(* Each test runs as an instance of its own, with a place in the table of  *)
(* instance states and in that of the rates buffers.  A test gives neither *)
(* back; it takes them anew when its instance ID is used again.            *)
(* Parameters are numbers of steps from their start.                       *)
(***************************************************************************)
EXTENDS Integers, Sequences, SequencesExt, FiniteSets

CONSTANTS
    StepCounts,       \* the numbers of values of the parameters, one sequence for each request
    NumSymbols,
    MaxInstances,     \* MAX_INSTANCES, the places of the two tables
    MaxCombinations,  \* MAXIMUM_PARAMETER_COMBINATIONS
    IntRange,         \* how many values an int has
    Fits,             \* the best fitness a generation can have
    MaxGenerations,
    MaxOptimizations  \* bound: the optimizations a process is asked for

ASSUME OptimizerAssumption ==
    /\ \A counts \in StepCounts : counts \in Seq(Nat \ {0}) /\ counts # <<>>
    /\ {NumSymbols, MaxInstances, MaxCombinations, MaxGenerations, MaxOptimizations} \subseteq Nat \ {0}
    /\ IntRange \in Nat \ {0, 1}
    /\ Fits \subseteq Nat

VARIABLES
    phase,      \* what the process is doing
    stopOpti,   \* somebody called stopOptimization
    counts,     \* the numbers of steps of this optimization
    sets,       \* the combinations stored
    set,        \* the loop index over them
    symbol,     \* the loop index over the symbols
    testId,
    states,     \* the instances with a place in gInstanceStates
    rates,      \* the instances with a place in gRatesBuffers
    generation,
    generationDifferences,
    asked,      \* the optimizations begun
    reports,    \* history: how often optimizationUpdate was called for a set and a symbol
    recorded,   \* history: the best fits this optimization has stored
    inherited   \* history: there were some of an earlier one

shared == <<stopOpti, states, rates>>
brute == <<counts, sets, set, symbol, testId, reports>>
genetic == <<generation, generationDifferences, recorded, inherited>>
vars == <<phase, shared, brute, genetic, asked>>

Symbols == 0..NumSymbols - 1

-----------------------------------------------------------------------------
(* The combinations. *)

Wrapped(n) == ((n + IntRange \div 2) % IntRange) - IntRange \div 2

\* getParameterSetsNumber: the product of the step counts, in an int.
getParameterSetsNumber(steps) ==
    LET product[i \in 0..Len(steps)] == IF i = 0 THEN 1 ELSE Wrapped(product[i - 1] * steps[i])
    IN  product[Len(steps)]

\* j after i rounds of the loop over the parameters, for combination number n.
Rest(steps, n) ==
    LET rest[i \in 0..Len(steps)] == IF i = 0 THEN n ELSE rest[i - 1] \div steps[i]
    IN  rest

\* Mutant of Combination: j is not divided.
Combination_SameRest(steps, n) == [i \in DOMAIN steps |-> n % steps[i]]

Combination(steps, n) == [i \in DOMAIN steps |-> Rest(steps, n)[i - 1] % steps[i]]

\* finishCtr = numOptimizedParams
AllWrapped(steps, n) ==
    \A i \in DOMAIN steps : Rest(steps, n)[i] > 0 /\ Combination(steps, n)[i] = 0

-----------------------------------------------------------------------------
(* A test: runPortfolioTest of one system, without callbacks. *)

With(table, id) == IF Cardinality(table) < MaxInstances THEN table \cup {id} ELSE table

\* initInstance gives the row of the instance back and claims its state, the first strategy call a row.
StatesAfter(id) == With(states, id)
RatesAfter(id) == With(rates \ {id}, id)
StrategyRan(id) == id \in StatesAfter(id) /\ id \in RatesAfter(id)

\* At the end testUpdate, NULL here, is called for each order that is still open.
Ends(id) == IF StrategyRan(id) THEN BOOLEAN ELSE {TRUE}

InstanceId(test, s) == test + 1 + 2 * (s + 1)

-----------------------------------------------------------------------------
(* Brute force. *)

NoReports(steps) == [p \in (0..getParameterSetsNumber(steps) - 1) \X Symbols |-> 0]

Init ==
    /\ phase = "idle" /\ stopOpti = FALSE
    /\ counts \in StepCounts /\ sets = <<>> /\ set = 0 /\ symbol = 0 /\ testId = 1
    /\ states = {} /\ rates = {}
    /\ generation = 0 /\ generationDifferences = <<-1, 0, 0, 0, 0>>
    /\ asked = 0
    /\ reports = NoReports(counts) /\ recorded = 0 /\ inherited = FALSE

\* The phase a brute force optimization begins with.
BruteForce(steps) == IF getParameterSetsNumber(steps) > MaxCombinations THEN "refused" ELSE "sets"

\* A genetic one evaluates its population first.  A crossover or mutation mode that is not implemented
\* ends it at once, and optimizationFinished is not called.
Genetic == {"evaluation", "idle"}

\* runOptimizationMultipleSymbols, up to the work itself.  An optimization of any other type is refused.
Begin ==
    /\ phase = "idle" /\ asked < MaxOptimizations
    /\ asked' = asked + 1
    /\ stopOpti' = FALSE
    /\ counts' \in StepCounts
    /\ sets' = <<>> /\ set' = 0 /\ symbol' = 0 /\ testId' = 1
    /\ reports' = NoReports(counts')
    /\ phase' \in {BruteForce(counts'), "refused"} \cup Genetic
    /\ generation' = 0 /\ recorded' = 0
    /\ inherited' = (inherited \/ recorded > 0)
    /\ UNCHANGED <<states, rates, generationDifferences>>

\* optimizationFinished was called before any work.
Refused ==
    /\ phase = "refused"
    /\ phase' = "idle"
    /\ UNCHANGED <<shared, brute, genetic, asked>>

\* One round of the loop that stores the combinations.  A write behind the array may end the process.
StoreSet ==
    /\ phase = "sets"
    /\ LET n == Len(sets)
           outside == n >= getParameterSetsNumber(counts)
       IN  IF AllWrapped(counts, n) THEN phase' = "runs" /\ UNCHANGED sets
           ELSE /\ sets' = Append(sets, Combination(counts, n))
                /\ phase' \in {"sets"} \cup (IF outside THEN {"dead"} ELSE {})
    /\ UNCHANGED <<shared, counts, set, symbol, testId, reports, genetic, asked>>

\* Mutant of LastSet: the loop ends before the last combination.
LastSet_Early == set >= getParameterSetsNumber(counts) - 1

LastSet == set >= getParameterSetsNumber(counts)

\* The loop over the combinations ends, or all that are left are skipped.
EndRuns ==
    /\ phase = "runs" /\ symbol = 0
    /\ LastSet \/ stopOpti
    /\ phase' = "idle"
    /\ UNCHANGED <<shared, brute, genetic, asked>>

NextSymbol == (symbol + 1) % NumSymbols

\* Mutant of NextSet: the next combination after each symbol.
NextSet_EachSymbol == set + 1

NextSet == IF NextSymbol = 0 THEN set + 1 ELSE set

\* One symbol of one combination.  The flag is only read before the first.
RunTest ==
    /\ phase = "runs" /\ (symbol > 0 \/ ~(LastSet \/ stopOpti))
    /\ LET id == InstanceId(testId, symbol) IN
       /\ states' = StatesAfter(id) /\ rates' = RatesAfter(id)
       /\ \E flat \in Ends(id) :
            IF ~flat THEN phase' = "dead" /\ UNCHANGED <<set, symbol, testId, reports>>
            ELSE /\ testId' = testId + 1
                 /\ reports' = [reports EXCEPT ![<<set, symbol>>] = @ + 1]
                 /\ symbol' = NextSymbol /\ set' = NextSet
                 /\ UNCHANGED phase
    /\ UNCHANGED <<stopOpti, counts, sets, genetic, asked>>

-----------------------------------------------------------------------------
(* The genetic algorithm. *)

\* testFitnessMultipleSymbols, for all entities of a population: one symbol.  Unlike brute force it uses
\* the same instance ID for a symbol each time.
Evaluate ==
    /\ phase = "evaluation"
    /\ LET id == InstanceId(1, symbol) IN
       /\ states' = StatesAfter(id) /\ rates' = RatesAfter(id)
       /\ \E flat \in Ends(id) :
            /\ symbol' = IF flat THEN NextSymbol ELSE symbol
            /\ phase' = IF ~flat THEN "dead" ELSE IF NextSymbol = 0 THEN "hook" ELSE "evaluation"
    /\ UNCHANGED <<stopOpti, counts, sets, set, testId, reports, genetic, asked>>

\* Mutant of Shifted: the values move from the front to the back, one over the other.
Shifted_FromFront(differences, fit) == [i \in 1..5 |-> fit]

Shifted(differences, fit) == [i \in 1..5 |-> IF i = 1 THEN fit ELSE differences[i - 1]]

\* No value is missing, and the standard deviation is below 5% of the average.
Converged(differences) ==
    LET sum == FoldSeq(+, 0, differences)
        squares == FoldSeq(LAMBDA d, total : total + (5 * d - sum) * (5 * d - sum), 0, differences)
    IN  (\A i \in 1..5 : differences[i] >= 0) /\ 80 * squares < sum * sum

\* Mutant of LastGeneration: there is no last one.
LastGeneration_Never == FALSE

LastGeneration == generation > MaxGenerations - 1

\* generationHook, called before each generation; stopIfConverged is set.
GenerationHook ==
    /\ phase = "hook"
    /\ IF LastGeneration
       THEN phase' = "idle" /\ UNCHANGED <<generationDifferences, recorded>>
       ELSE \E fit \in Fits :
              /\ generationDifferences' = Shifted(generationDifferences, fit)
              /\ recorded' = IF recorded = 5 THEN 5 ELSE recorded + 1
              /\ phase' = IF Converged(generationDifferences') THEN "converged"
                          ELSE IF stopOpti THEN "idle" ELSE "evaluation"
    /\ generation' = IF generation = MaxGenerations THEN generation ELSE generation + 1
    /\ UNCHANGED <<shared, brute, inherited, asked>>

\* The algorithm returns, and optimizationFinished is called.
EvolutionEnds ==
    /\ phase = "converged"
    /\ phase' = "idle"
    /\ UNCHANGED <<shared, brute, genetic, asked>>

\* stopOptimization, by another thread; a new optimization forgets it.
StopOptimization ==
    /\ ~stopOpti /\ phase # "dead"
    /\ stopOpti' = TRUE
    /\ UNCHANGED <<phase, states, rates, brute, genetic, asked>>

Work == Refused \/ StoreSet \/ EndRuns \/ RunTest \/ Evaluate \/ GenerationHook \/ EvolutionEnds

Next == Begin \/ Work \/ StopOptimization

Spec == Init /\ [][Next]_vars

\* The thread that optimises keeps running; nobody has to ask for an optimization or for its end.
FairSpec == Spec /\ WF_vars(Work)

-----------------------------------------------------------------------------
(* Properties. *)

TypeOK ==
    /\ phase \in {"idle", "refused", "sets", "runs", "evaluation", "hook", "converged", "dead"}
    /\ stopOpti \in BOOLEAN
    /\ counts \in StepCounts
    /\ set \in Nat /\ symbol \in Symbols /\ testId \in Nat
    /\ asked \in 0..MaxOptimizations
    /\ reports \in [(0..getParameterSetsNumber(counts) - 1) \X Symbols -> Nat]
    /\ generation \in 0..MaxGenerations
    /\ generationDifferences \in [1..5 -> Fits \cup {-1, 0}]
    /\ recorded \in 0..5 /\ inherited \in BOOLEAN

Product(steps) ==
    LET product[i \in 0..Len(steps)] == IF i = 0 THEN 1 ELSE product[i - 1] * steps[i]
    IN  product[Len(steps)]

\* What there is to test: a value of each parameter.
Combinations(steps) ==
    {c \in [DOMAIN steps -> 0..Product(steps)] : \A i \in DOMAIN steps : c[i] < steps[i]}

\* The product of the step counts is an int.
NoOverflow(steps) == Product(steps) < IntRange \div 2

\* The tests run over every combination once, and over nothing else, when their number is an int: what
\* the loop of runOptimizationMultipleSymbols enumerates is the product of the parameters' values.
SetsComplete ==
    (phase = "runs" /\ NoOverflow(counts)) =>
        /\ Len(sets) = Product(counts)
        /\ ToSet(sets) = Combinations(counts)

\* optimizationUpdate is called once for each combination and symbol before the current one and for no
\* other: nothing is left out, and nothing is reported twice.
ReportsInOrder ==
    phase = "runs" =>
        \A p \in DOMAIN reports :
            reports[p] = IF p[1] < set \/ (p[1] = set /\ p[2] < symbol) THEN 1 ELSE 0

\* A brute force optimization that nobody stopped ends with every combination of the parameters' values
\* reported once for each symbol, and nothing else ("Run the optimization for each set",
\* optimizer.c:407) - when their number is an int.  When the product overflows the loop's bound is what
\* is left of it, 0 for 4 * 4 of 16, and the optimization ends by itself with sets left out.
EndsComplete ==
    [][(phase = "runs" /\ phase' = "idle" /\ ~stopOpti /\ NoOverflow(counts)) =>
        /\ {<<sets[p[1] + 1], p[2]>> : p \in DOMAIN reports} = Combinations(counts) \X Symbols
        /\ \A p \in DOMAIN reports : reports[p] = 1]_vars

\* Populations are only found to have converged by five generations of their own, unless an earlier
\* optimization of the process has left its best fits behind.
ConvergesOnItsOwn == (phase = "converged" /\ ~inherited) => recorded = 5

\* Every optimization ends, and so does its process if a test ended with an open order.
OptimizationEnds == phase # "idle" ~> phase \in {"idle", "dead"}

=============================================================================
