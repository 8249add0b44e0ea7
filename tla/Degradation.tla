----------------------------- MODULE Degradation -----------------------------
(***************************************************************************)
(* What the system falls back to when components fail                      *)
(* (src/src/core/degradation.py): the failures that are active since when, *)
(* the level, and the parameters derived from them.                        *)
(***************************************************************************)
EXTENDS Integers, FiniteSets

CONSTANTS
    DefaultThreshold, ElevatedThreshold,    \* confidence thresholds, in percent
    MaxDegradationClock                     \* bound: time

ASSUME DegradationAssumption ==
    /\ {DefaultThreshold, ElevatedThreshold, MaxDegradationClock} \subseteq Nat
    /\ DefaultThreshold <= ElevatedThreshold

VARIABLES
    degraded,           \* the components whose state is active
    activated_at,       \* component -> activated_at, or Never
    degradation_clock

degradationVars == <<degraded, activated_at, degradation_clock>>

Components == {"news_engine", "hft_pipeline", "mistake_db", "database", "redis"}
NotActive == -1

DegradationInit ==
    /\ degraded = {} /\ activated_at = [c \in Components |-> NotActive]
    /\ degradation_clock = 0

-----------------------------------------------------------------------------
\* Mutant: exactly two failures are critical.
LevelOfPair(failures) ==
    CASE failures = {} -> 0
      [] "database" \in failures -> 2
      [] Cardinality(failures) = 2 -> 2
      [] OTHER -> 1

\* degradation_level: NORMAL, DEGRADED, CRITICAL
Level(failures) ==
    CASE failures = {} -> 0
      [] "database" \in failures -> 2
      [] Cardinality(failures) >= 2 -> 2
      [] OTHER -> 1

ConfidenceThreshold(failures) ==
    IF "news_engine" \in failures THEN ElevatedThreshold ELSE DefaultThreshold
UseStandardPipeline(failures) == "hft_pipeline" \in failures
ApplyMistakePenalties(failures) == "mistake_db" \notin failures

\* activate(): nothing changes for a component already degraded.
ActivateDegradation(c) ==
    /\ degraded' = degraded \cup {c}
    /\ activated_at' = [activated_at EXCEPT ![c] = IF c \in degraded THEN @ ELSE degradation_clock]
    /\ UNCHANGED degradation_clock

Deactivate(c) ==
    /\ degraded' = degraded \ {c}
    /\ activated_at' = [activated_at EXCEPT ![c] = NotActive]
    /\ UNCHANGED degradation_clock

DegradationTick ==
    /\ degradation_clock < MaxDegradationClock
    /\ degradation_clock' = degradation_clock + 1
    /\ UNCHANGED <<degraded, activated_at>>

DegradationNext ==
    \/ \E c \in Components : ActivateDegradation(c) \/ Deactivate(c)
    \/ DegradationTick

DegradationSpec == DegradationInit /\ [][DegradationNext]_degradationVars

-----------------------------------------------------------------------------
\* One more failure never makes the system look healthier or trade more readily: the
\* level and the confidence asked for do not fall, and neither fallback is lifted.
FailureNeverReassures ==
    [][degraded \subseteq degraded' =>
        /\ Level(degraded) <= Level(degraded')
        /\ ConfidenceThreshold(degraded) <= ConfidenceThreshold(degraded')
        /\ UseStandardPipeline(degraded) => UseStandardPipeline(degraded')
        /\ ApplyMistakePenalties(degraded') => ApplyMistakePenalties(degraded)]_degradationVars
=============================================================================
