-------------------------- MODULE MCUsageCollection --------------------------
(***************************************************************************)
(* Instances of UsageCollection: a slot that changes hands on day 2.       *)
(***************************************************************************)
EXTENDS UsageCollection

CONSTANTS timer, manual, nobody

\* Call 1 is complete, call 2 lacks what does not apply to it, call 3 everything.
MCNulls == [c \in 1 .. MaxCalls |->
              IF c = 1 THEN {} ELSE IF c = 2 THEN {"errorCategory", "rawProviderUsage"}
              ELSE {"outputCandidates", "rawProviderUsage", "sessionId"}]
MCSurfaces == [k \in 1 .. MaxContainers |->
                 IF k = 1 THEN {"implemented"} ELSE {"implemented", "gap"}]
MCHolder == [d \in 1 .. 2 |-> IF d = 1 THEN "first" ELSE "second"]
==============================================================================
