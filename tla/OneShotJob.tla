------------------------------ MODULE OneShotJob ------------------------------
(***************************************************************************)
(* What the broker promises about a root action, whatever crashes and      *)
(* races happen behind it: a job gets one verdict, its handler is entered  *)
(* at most once, and the verdict says truthfully what is known about that  *)
(* execution.  RootActionBroker implements this specification.             *)
(***************************************************************************)
EXTENDS Naturals

CONSTANT Jobs

VARIABLES
  verdict,  \* what the record of the job says
  effect    \* what happened: not entered, entered, or how the handler ended

Refused  == {"rejected", "prestart_failed"}
Executed == {"succeeded", "failed"}

jobVars == <<verdict, effect>>

TypeOK ==
  /\ verdict \in [Jobs -> {"none", "open", "claimed", "unknown"} \cup Refused \cup Executed]
  /\ effect \in [Jobs -> {"none", "entered"} \cup Executed]

Init ==
  /\ verdict = [j \in Jobs |-> "none"]
  /\ effect = [j \in Jobs |-> "none"]

\* The step from one verdict to another.
Verdict(j, from, to) ==
  /\ verdict[j] = from
  /\ verdict' = [verdict EXCEPT ![j] = to]
  /\ UNCHANGED effect

Accept(j) == Verdict(j, "none", "open")

Refuse(j) == \E to \in Refused : Verdict(j, "none", to)

Claim(j)  == Verdict(j, "open", "claimed")

\* The handler is entered only after the claim, possibly too late to be
\* waited for, and never for the second time.
Enter(j) ==
  /\ verdict[j] \in {"claimed", "unknown"} /\ effect[j] = "none"
  /\ effect' = [effect EXCEPT ![j] = "entered"]
  /\ UNCHANGED verdict

End(j) ==
  /\ effect[j] = "entered"
  /\ \E how \in Executed : effect' = [effect EXCEPT ![j] = how]
  /\ UNCHANGED verdict

\* A result is reported only when the handler ended with it.
Report(j) ==
  /\ effect[j] \in Executed
  /\ Verdict(j, "claimed", effect[j])

\* Nothing is claimed about an execution that was lost sight of.
LoseTrack(j) == Verdict(j, "claimed", "unknown")

Next == \E j \in Jobs : \/ Accept(j) \/ Refuse(j) \/ Claim(j) \/ Enter(j)
                        \/ End(j) \/ Report(j) \/ LoseTrack(j)

Spec == Init /\ [][Next]_jobVars
==============================================================================
