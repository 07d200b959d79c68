------------------------- MODULE RuntimeSecretProofs -------------------------
(***************************************************************************)
(* A rotation of a runtime secret is never left half done, and what set    *)
(* reports is true, for every set of values and every number of kills and  *)
(* failures.  The inductive invariant says, for every step a command may   *)
(* be at, how far the files, the container and the transaction have come.  *)
(***************************************************************************)
EXTENDS RuntimeSecret, TLAPS

Setting   == {"write", "sync", "recreate", "check", "log", "finish"}
Restoring == {"r_secret", "r_env", "r_apply", "r_finish"}

\* The files as the set of this command leaves them.
NewSecret == Upsert(before.secret, cmd.values)
NewEnv    == IF CoversEnv THEN cmd.values.api ELSE before.env

ContainerOK == container # None => container.api = container.token

\* What was set is in the container and, if it was checked, is accepted there.
Verified ==
  /\ container = Created(secret, env)
  /\ cmd.values.provider # NoValue => ProbeStatus = "valid"

\* The transaction holds the files before the set.  A set without the gateway
\* key leaves .env alone, and so does a rollback of the apply it began.
Sealed ==
  /\ tx.state = "sealed"
  /\ tx.secret = before.secret /\ tx.env = before.env
  /\ Whole(tx.secret, tx.env)
  /\ ~tx.covers => env = tx.env /\ pending \in {None, tx.env}

\* No command runs, or it has only made its directory.
Resting ==
  /\ pc = "seal" =>
       /\ tx.state = "open" /\ before = [secret |-> secret, env |-> env]
       /\ cmd.kind = "set" /\ ~cmd.restarted
  /\ tx.state = "sealed" \/ pc \in Setting \cup Restoring => Sealed
  /\ pc \in {"idle", "seal"} /\ tx.state # "sealed" =>
       Whole(secret, env) /\ ContainerOK /\ pending = None

\* How far set has come.
Forward ==
  pc \in Setting =>
    /\ cmd.kind = "set" /\ pending = None /\ tx.covers = CoversEnv
    /\ ContainerOK
    /\ secret = IF pc = "write" THEN before.secret ELSE NewSecret
    /\ env = IF pc \in {"write", "sync"} THEN before.env ELSE NewEnv
    /\ pc \in {"write", "sync", "recreate"} => ~cmd.restarted
    /\ pc = "check" => container = Created(secret, env)
    /\ pc \in {"log", "finish"} /\ cmd.check => Verified

\* How far the restore has come.
Backward ==
  pc \in Restoring =>
    /\ cmd.kind \in {"set", "recover"}
    /\ cmd.kind = "set" /\ ~cmd.restarted => ContainerOK /\ pending = None
    /\ pc # "r_secret" => secret = tx.secret
    /\ pc \in {"r_apply", "r_finish"} => env = tx.env
    /\ pc = "r_apply" => cmd.kind = "recover" \/ cmd.restarted
    /\ pc = "r_finish" =>
         /\ ContainerOK /\ pending = None
         /\ cmd.kind = "recover" \/ cmd.restarted => container = Created(secret, env)

\* A report is made once, at the end, and stands until the next command.
Reported ==
  /\ report # "none" => pc \in {"idle", "finish"}
  /\ report \in {"stored", "stored_checked"} =>
       /\ pending = None /\ secret = NewSecret /\ Whole(secret, env)
  /\ report = "stored_checked" => Verified
  /\ report = "restored" =>
       /\ pending = None /\ before = [secret |-> secret, env |-> env]
       /\ cmd.restarted => container = Created(secret, env)

\* expand_runtime_secret_aliases: a command has the gateway key under both names.
\* A check needs a container that was recreated.
Commanded ==
  /\ cmd.values.api = cmd.values.token
  /\ cmd.check => cmd.mode # "no_restart"

SecretInv == TypeOK /\ Commanded /\ Resting /\ Forward /\ Backward /\ Reported

------------------------------------------------------------------------------
(* The files *)

LEMMA ParseOK ==
  ASSUME NEW s \in Secret
  PROVE  Parse(s) \in Text
BY DEF Parse, Secret, Text, Empty

\* expand_runtime_secret_aliases of an input that was not refused.
LEMMA ExpandOK ==
  ASSUME NEW given \in Text, Supported(given)
  PROVE  Expand(given) \in Text /\ Expand(given).api = Expand(given).token
BY Zenon DEF Expand, Supported, Text, Keys

LEMMA UpsertOK ==
  ASSUME NEW s \in Secret, NEW values \in Text
  PROVE  /\ Upsert(s, values) \in Text
         /\ Upsert(s, values) # Absent /\ Upsert(s, values) # Torn
         /\ Parse(Upsert(s, values)) = Upsert(s, values)
         /\ \A k \in Keys : values[k] # NoValue => Upsert(s, values)[k] = values[k]
         /\ \A k \in Keys : values[k] = NoValue => Upsert(s, values)[k] = Parse(s)[k]
<1>1. Upsert(s, values) \in Text
  BY ParseOK DEF Upsert, Text
<1>2. Upsert(s, values) # Absent /\ Upsert(s, values) # Torn
  BY <1>1, SecretAssumption
<1> QED BY <1>1, <1>2 DEF Upsert, Parse

\* A set of the gateway key, or of another, leaves the files together.
LEMMA UpsertWhole ==
  ASSUME NEW s \in Secret, NEW e \in Env, Whole(s, e),
         NEW values \in Text, values.api = values.token
  PROVE  Whole(Upsert(s, values), IF values.api # NoValue THEN values.api ELSE e)
<1>1. /\ "api" \in Keys /\ "token" \in Keys /\ values.api \in Value \cup {NoValue}
  BY DEF Keys, Text
<1>2. values.api # NoValue => values.api # Torn
  BY <1>1, SecretAssumption
<1>3. CASE values.api # NoValue
  BY <1>1, <1>2, <1>3, UpsertOK DEF Whole
<1>4. CASE values.api = NoValue
  <2>1. /\ Upsert(s, values) # Torn /\ Parse(Upsert(s, values)) = Upsert(s, values)
        /\ Upsert(s, values).api = Parse(s).api /\ Upsert(s, values).token = Parse(s).token
    BY <1>1, <1>4, UpsertOK, Zenon
  <2> QED BY <1>4, <2>1 DEF Whole
<1> QED BY <1>3, <1>4

LEMMA CreatedOK ==
  ASSUME NEW s \in Secret, NEW e \in Env
  PROVE  /\ Created(s, e) \in [Keys -> Env]
         /\ Whole(s, e) => Created(s, e).api = Created(s, e).token
<1>1. Parse(s) \in Text
  BY ParseOK
<1>2. /\ Parse(s).api \in Value \cup {NoValue} /\ Parse(s).provider \in Value \cup {NoValue}
  BY <1>1 DEF Text, Keys
<1> QED BY <1>2 DEF Created, Keys, Env, Whole

------------------------------------------------------------------------------
(* The steps of a set *)

LEMMA BeginSetKeeps ==
  ASSUME SecretInv, NEW given \in Text, NEW mode \in {"no_restart", "unsafe", "full"},
         NEW check \in BOOLEAN, BeginSet(given, mode, check)
  PROVE  SecretInv'
<1>1. Expand(given) \in Text /\ Expand(given).api = Expand(given).token
  BY ExpandOK DEF BeginSet
<1>2. /\ pc = "idle" /\ tx.state = "none" /\ tx' = [NoTx EXCEPT !.state = "open"]
      /\ before' = [secret |-> secret, env |-> env] /\ pc' = "seal" /\ report' = "none"
      /\ UNCHANGED <<layout, secret, env, container, pending, residue, faults>>
      /\ cmd' = [kind |-> "set", values |-> Expand(given), mode |-> mode,
                 check |-> check /\ mode # "no_restart", restarted |-> FALSE]
  BY DEF BeginSet, files, host
<1>3. TypeOK'
  <2>1. tx' \in Transaction
    BY <1>2, Zenon DEF NoTx, Transaction, Secret, Env
  <2>2. cmd' \in Command
    BY <1>1, <1>2 DEF Command
  <2> QED BY <1>2, <2>1, <2>2 DEF SecretInv, TypeOK, Pc
<1>4. Commanded' /\ Forward' /\ Backward' /\ Reported'
  BY <1>1, <1>2, Zenon DEF Commanded, Forward, Backward, Reported, Setting, Restoring
<1>5. Resting'
  BY <1>2 DEF SecretInv, Resting, Setting, Restoring, NoTx, ContainerOK
<1> QED BY <1>3, <1>4, <1>5 DEF SecretInv

LEMMA SealKeeps ==
  ASSUME SecretInv, Seal
  PROVE  SecretInv'
<1>1. /\ pc = "seal" /\ UNCHANGED <<layout, secret, env, container, pending, residue, before, cmd>>
      /\ faults' \in 0 .. MaxFaults
      /\ \/ /\ tx' = [state |-> "sealed", secret |-> secret, env |-> env, covers |-> CoversEnv]
            /\ pc' = "write" /\ report' = report
         \/ tx' = NoTx /\ pc' = "idle" /\ report' = "failed"
         \/ tx' = tx /\ pc' = "idle" /\ report' = report
  BY SecretAssumption DEF Seal, files, host, Goto, Ends, Dies, NoFault, Fault, SecretInv, TypeOK
<1>2. /\ tx.state = "open" /\ before = [secret |-> secret, env |-> env] /\ Whole(secret, env)
      /\ ContainerOK /\ pending = None /\ cmd.kind = "set" /\ ~cmd.restarted /\ report = "none"
      /\ before.secret = secret /\ before.env = env
  BY <1>1 DEF SecretInv, Resting, Reported
<1>3. TypeOK'
  <2>1. NoTx \in Transaction
    BY DEF NoTx, Transaction, Secret, Env
  <2>2. secret \in Secret /\ env \in Env /\ CoversEnv \in BOOLEAN /\ tx \in Transaction
    BY DEF SecretInv, TypeOK, CoversEnv
  <2>3. [state |-> "sealed", secret |-> secret, env |-> env, covers |-> CoversEnv]
          \in Transaction
    BY <2>2 DEF Transaction
  <2>4. tx' \in Transaction
    BY <1>1, <2>1, <2>2, <2>3, Zenon
  <2> QED BY <1>1, <2>4 DEF SecretInv, TypeOK, Pc
<1>4. Commanded' /\ Reported' /\ Backward'
  BY <1>1, <1>2 DEF SecretInv, Commanded, Backward, Reported, Restoring
<1>5. Resting'
  BY <1>1, <1>2 DEF Resting, Setting, Restoring, NoTx, ContainerOK, Sealed
<1>6. Forward'
  BY <1>1, <1>2 DEF Forward, Setting, ContainerOK, CoversEnv
<1> QED BY <1>3, <1>4, <1>5, <1>6 DEF SecretInv

\* A step of set that fails, before or in the recreation, begins the restore.
LEMMA FileStepKeeps ==
  ASSUME SecretInv, pc \in {"write", "sync"},
         UNCHANGED <<layout, container, pending, residue, tx, before, cmd, report>>,
         faults' \in 0 .. MaxFaults, secret' \in Secret, env' \in Env,
         ~tx.covers => env' = env,
         pc' \in {"r_secret", "idle"}
  PROVE  SecretInv'
<1>1. TypeOK'
  BY DEF SecretInv, TypeOK, Pc
<1>2. /\ Sealed /\ cmd.kind = "set" /\ pending = None /\ ContainerOK /\ ~cmd.restarted
      /\ report = "none"
  BY DEF SecretInv, Resting, Forward, Setting, Reported
<1>3. Commanded' /\ Reported'
  BY <1>2 DEF SecretInv, Commanded, Reported
<1>4. Resting'
  BY <1>2 DEF Resting, Setting, Restoring, Sealed
<1>5. Forward' /\ Backward'
  BY <1>2 DEF Forward, Backward, Setting, Restoring, ContainerOK
<1> QED BY <1>1, <1>3, <1>4, <1>5 DEF SecretInv

LEMMA WriteSecretKeeps ==
  ASSUME SecretInv, WriteSecret
  PROVE  SecretInv'
<1> DEFINE written == Upsert(secret, cmd.values)
<1>1. /\ pc = "write"
      /\ UNCHANGED <<layout, env, container, pending, residue, tx, before, cmd, report>>
      /\ faults' \in 0 .. MaxFaults
      /\ \/ secret' = written /\ pc' = "sync"
         \/ secret' \in {secret, Torn, written} /\ pc' \in {"r_secret", "idle"}
  BY SecretAssumption
     DEF WriteSecret, host, Goto, Dies, Undoes, NoFault, Fault, SecretInv, TypeOK
<1>2. written \in Text
  BY UpsertOK DEF SecretInv, TypeOK, Command
<1> HIDE DEF written
<1>3. secret' \in Secret /\ env' \in Env
  BY <1>1, <1>2 DEF Secret, SecretInv, TypeOK
<1>4. CASE pc' \in {"r_secret", "idle"}
  BY <1>1, <1>3, <1>4, FileStepKeeps
<1>5. CASE secret' = written /\ pc' = "sync"
  <2>1. /\ Sealed /\ cmd.kind = "set" /\ pending = None /\ ContainerOK /\ ~cmd.restarted
        /\ report = "none" /\ tx.covers = CoversEnv /\ secret = before.secret /\ env = before.env
    BY <1>1 DEF SecretInv, Resting, Forward, Setting, Reported
  <2>2. TypeOK'
    BY <1>1, <1>3, <1>5 DEF SecretInv, TypeOK, Pc
  <2>3. Commanded' /\ Reported' /\ Backward'
    BY <1>1, <1>5, <2>1 DEF SecretInv, Commanded, Backward, Reported, Restoring
  <2>4. Resting'
    BY <1>1, <1>5, <2>1 DEF Resting, Sealed
  <2>5. Forward'
    BY <1>1, <1>5, <2>1 DEF Forward, Setting, ContainerOK, CoversEnv, NewSecret, written
  <2> QED BY <2>2, <2>3, <2>4, <2>5 DEF SecretInv
<1> QED BY <1>1, <1>4, <1>5

LEMMA SyncEnvKeeps ==
  ASSUME SecretInv, SyncEnv
  PROVE  SecretInv'
<1>1. /\ pc = "sync"
      /\ UNCHANGED <<layout, secret, container, pending, residue, tx, before, cmd, report>>
      /\ faults' \in 0 .. MaxFaults
      /\ \/ /\ env' = IF CoversEnv THEN cmd.values.api ELSE env
            /\ pc' \in {"log", "recreate"} /\ (pc' = "log" <=> cmd.mode = "no_restart")
         \/ /\ env' \in {env, IF CoversEnv THEN cmd.values.api ELSE env}
            /\ pc' \in {"r_secret", "idle"}
  BY SecretAssumption
     DEF SyncEnv, host, Goto, Dies, Undoes, NoFault, Fault, SecretInv, TypeOK
<1>2. /\ Sealed /\ cmd.kind = "set" /\ pending = None /\ ContainerOK /\ ~cmd.restarted
      /\ report = "none" /\ tx.covers = CoversEnv /\ secret = NewSecret /\ env = before.env
  BY <1>1 DEF SecretInv, Resting, Forward, Setting, Reported
<1>3. secret' \in Secret /\ env' \in Env /\ (~tx.covers => env' = env)
  BY <1>1, <1>2 DEF SecretInv, TypeOK, Command, Text, Keys, Env
<1>4. CASE pc' \in {"r_secret", "idle"}
  BY <1>1, <1>3, <1>4, FileStepKeeps
<1>5. CASE /\ env' = IF CoversEnv THEN cmd.values.api ELSE env
           /\ pc' \in {"log", "recreate"} /\ (pc' = "log" <=> cmd.mode = "no_restart")
  <2>1. TypeOK'
    BY <1>1, <1>3, <1>5 DEF SecretInv, TypeOK, Pc
  <2>2. Commanded' /\ Reported' /\ Backward'
    BY <1>1, <1>2, <1>5 DEF SecretInv, Commanded, Backward, Reported, Restoring
  <2>3. Resting'
    BY <1>1, <1>2, <1>3, <1>5 DEF Resting, Sealed
  <2>4. secret' = NewSecret' /\ env' = NewEnv' /\ (tx.covers = CoversEnv)' /\ ContainerOK'
    BY <1>1, <1>2, <1>5 DEF NewSecret, NewEnv, CoversEnv, ContainerOK
  <2>5. pc' = "log" => ~cmd'.check
    BY <1>1, <1>5 DEF SecretInv, Commanded
  <2>6. Forward'
    BY <1>1, <1>2, <1>5, <2>4, <2>5 DEF Forward
  <2> QED BY <2>1, <2>2, <2>3, <2>6 DEF SecretInv
<1> QED BY <1>1, <1>4, <1>5

\* Set leaves the files together; a container created from them has one key.
LEMMA NewFiles ==
  ASSUME SecretInv, pc \in Setting, secret = NewSecret, env = NewEnv
  PROVE  Whole(secret, env) /\ Created(secret, env) \in [Keys -> Env]
         /\ Created(secret, env).api = Created(secret, env).token
<1>1. /\ before.secret \in Secret /\ before.env \in Env /\ cmd.values \in Text
      /\ secret \in Secret /\ env \in Env
  BY DEF SecretInv, TypeOK, Command
<1>2. Whole(before.secret, before.env)
  BY DEF SecretInv, Resting, Sealed
<1>3. Whole(NewSecret, NewEnv)
  BY <1>1, <1>2, UpsertWhole DEF NewSecret, NewEnv, CoversEnv, SecretInv, Commanded
<1> QED BY <1>1, <1>3, CreatedOK

LEMMA RecreateKeeps ==
  ASSUME SecretInv, Recreate
  PROVE  SecretInv'
<1>1. /\ pc = "recreate" /\ pc \in Setting
      /\ UNCHANGED <<layout, secret, env, tx, before, report>>
  <2>1. pc = "recreate" /\ UNCHANGED <<layout, files, tx, before>>
    BY Zenon DEF Recreate
  <2>2. UNCHANGED report
    BY Zenon DEF Recreate, Dies
  <2> QED BY <2>1, <2>2 DEF files, Setting
<1>2. /\ Sealed /\ cmd.kind = "set" /\ pending = None /\ ContainerOK /\ ~cmd.restarted
      /\ report = "none" /\ tx.covers = CoversEnv /\ secret = NewSecret /\ env = NewEnv
  BY <1>1 DEF SecretInv, Resting, Forward, Reported
<1>3. PICK tried \in Command : tried = [cmd EXCEPT !.restarted = TRUE]
  BY Zenon DEF SecretInv, TypeOK, Command
<1>4. /\ tried.values = cmd.values /\ tried.kind = cmd.kind /\ tried.check = cmd.check
      /\ tried.mode = cmd.mode /\ tried.restarted
  BY <1>3 DEF SecretInv, TypeOK, Command
<1>5. /\ faults' \in 0 .. MaxFaults
      /\ container' \in {container, None, Created(secret, env)} /\ pending' \in {None, env}
      /\ residue' \in {residue, TRUE}
      /\ \/ /\ container' = Created(secret, env) /\ pending' = None /\ cmd' = tried
            /\ pc' = IF cmd.check THEN "check" ELSE "log"
         \/ pc' = "r_secret" /\ cmd' = tried
         \/ pc' = "idle" /\ cmd' = cmd
  <2>1. faults' \in 0 .. MaxFaults
    BY SecretAssumption DEF Recreate, NoFault, Fault, SecretInv, TypeOK
  <2> QED BY <1>2, <1>3, <2>1, Zenon
          DEF Recreate, Applied, UnsafeRecreated, ApplyRefused, ApplyFails, UnsafeRefused,
              Admits, UnsafeFails, DockerLeaves, host, Dies
<1>6. Whole(secret, env) /\ Created(secret, env) \in [Keys -> Env]
      /\ Created(secret, env).api = Created(secret, env).token
  BY <1>1, <1>2, NewFiles
<1>7. TypeOK'
  <2>1. /\ container' \in [Keys -> Env] \cup {None} /\ pending' \in Env \cup {None}
        /\ residue' \in BOOLEAN
    BY <1>5, <1>6, Zenon DEF SecretInv, TypeOK
  <2> QED BY <1>1, <1>3, <1>5, <2>1, Zenon DEF SecretInv, TypeOK, Pc
<1>8. Commanded'
  BY <1>4, <1>5 DEF SecretInv, Commanded
<1>9. Reported' /\ Resting'
  BY <1>1, <1>2, <1>5 DEF Reported, Resting, Sealed
<1>10. Backward'
  BY <1>2, <1>4, <1>5 DEF Backward, Restoring
<1>11. Forward'
  <2>1. CASE /\ container' = Created(secret, env) /\ pending' = None /\ cmd' = tried
             /\ pc' = IF cmd.check THEN "check" ELSE "log"
    <3>1. secret' = NewSecret' /\ env' = NewEnv' /\ (tx.covers = CoversEnv)' /\ ContainerOK'
      BY <1>1, <1>2, <1>4, <1>6, <2>1 DEF NewSecret, NewEnv, CoversEnv, ContainerOK
    <3> QED BY <1>1, <1>2, <1>4, <2>1, <3>1 DEF Forward
  <2>2. CASE pc' \in {"r_secret", "idle"}
    BY <2>2 DEF Forward, Setting
  <2> QED BY <1>5, <2>1, <2>2
<1> QED BY <1>7, <1>8, <1>9, <1>10, <1>11 DEF SecretInv

\* After the recreation: the check, the log and the end of the transaction.
LEMMA CheckKeeps ==
  ASSUME SecretInv, Check
  PROVE  SecretInv'
<1>1. /\ pc = "check"
      /\ UNCHANGED <<layout, secret, env, container, pending, residue, tx, before, cmd, report>>
      /\ faults' \in 0 .. MaxFaults
      /\ \/ ServesValues /\ pc' = "log"
         \/ pc' \in {"r_secret", "idle"}
  BY SecretAssumption
     DEF Check, files, host, Goto, Dies, Undoes, NoFault, Fault, SecretInv, TypeOK
<1>2. /\ Sealed /\ cmd.kind = "set" /\ pending = None /\ ContainerOK
      /\ report = "none" /\ tx.covers = CoversEnv /\ secret = NewSecret /\ env = NewEnv
      /\ container = Created(secret, env)
  BY <1>1 DEF SecretInv, Resting, Forward, Reported, Setting
<1>3. TypeOK' /\ Commanded'
  BY <1>1 DEF SecretInv, TypeOK, Pc, Commanded
<1>4. Reported' /\ Resting'
  BY <1>1, <1>2 DEF Reported, Resting, Sealed
<1>5. Backward'
  BY <1>1, <1>2 DEF Backward, Restoring, ContainerOK
<1>6. Forward'
  <2>1. secret' = NewSecret' /\ env' = NewEnv' /\ (tx.covers = CoversEnv)' /\ ContainerOK'
    BY <1>1, <1>2 DEF NewSecret, NewEnv, CoversEnv, ContainerOK
  <2>2. pc' = "log" => Verified'
    BY <1>1, <1>2 DEF Verified, ServesValues, ProbeStatus
  <2> QED BY <1>1, <1>2, <2>1, <2>2 DEF Forward, Setting
<1> QED BY <1>3, <1>4, <1>5, <1>6 DEF SecretInv

LEMMA LogKeeps ==
  ASSUME SecretInv, Log
  PROVE  SecretInv'
<1>1. /\ pc = "log" /\ pc \in Setting
      /\ UNCHANGED <<layout, secret, env, container, pending, residue, tx, before, cmd>>
      /\ faults' \in 0 .. MaxFaults
      /\ \/ pc' = "finish" /\ report' = IF cmd.check THEN "stored_checked" ELSE "stored"
         \/ pc' = "idle" /\ report' = report
  BY SecretAssumption DEF Log, files, host, Dies, NoFault, Fault, SecretInv, TypeOK, Setting
<1>2. /\ Sealed /\ cmd.kind = "set" /\ pending = None /\ ContainerOK
      /\ report = "none" /\ tx.covers = CoversEnv /\ secret = NewSecret /\ env = NewEnv
      /\ cmd.check => Verified
  BY <1>1 DEF SecretInv, Resting, Forward, Reported
<1>3. TypeOK' /\ Commanded' /\ Backward'
  BY <1>1 DEF SecretInv, TypeOK, Pc, Commanded, Backward, Restoring
<1>4. Resting'
  BY <1>1, <1>2 DEF Resting, Sealed
<1>5. /\ secret' = NewSecret' /\ env' = NewEnv' /\ (tx.covers = CoversEnv)' /\ ContainerOK'
      /\ Verified => Verified'
  BY <1>1, <1>2 DEF NewSecret, NewEnv, CoversEnv, ContainerOK, Verified, ProbeStatus
<1>6. Forward'
  BY <1>1, <1>2, <1>5 DEF Forward, Setting
<1>7. Whole(secret, env)
  BY <1>1, <1>2, NewFiles
<1>8. Reported'
  BY <1>1, <1>2, <1>5, <1>7 DEF Reported
<1> QED BY <1>3, <1>4, <1>6, <1>8 DEF SecretInv

LEMMA PartlyGone ==
  ASSUME tx \in Transaction, tx' \in {tx, [tx EXCEPT !.state = "damaged"], NoTx}
  PROVE  tx' \in Transaction /\ (tx' = tx \/ tx'.state # "sealed")
<1>1. NoTx \in Transaction /\ NoTx.state = "none"
  BY DEF NoTx, Transaction, Secret, Env
<1>2. [tx EXCEPT !.state = "damaged"] \in Transaction
      /\ [tx EXCEPT !.state = "damaged"].state = "damaged"
  BY DEF Transaction
<1> QED BY <1>1, <1>2, Zenon

LEMMA FinishKeeps ==
  ASSUME SecretInv, Finish
  PROVE  SecretInv'
<1>1. /\ pc = "finish" /\ pc \in Setting
      /\ UNCHANGED <<layout, secret, env, container, pending, residue, before, cmd, report>>
      /\ faults' \in 0 .. MaxFaults /\ pc' = "idle"
      /\ tx' \in {tx, [tx EXCEPT !.state = "damaged"], NoTx}
  BY SecretAssumption
     DEF Finish, files, host, Dies, NoFault, Fault, Removed, PartlyRemoved, SecretInv, TypeOK,
         Setting
<1>2. /\ Sealed /\ pending = None /\ ContainerOK /\ secret = NewSecret /\ env = NewEnv
  BY <1>1 DEF SecretInv, Resting, Forward
<1>3. tx' \in Transaction /\ (tx' = tx \/ tx'.state # "sealed")
  BY <1>1, PartlyGone DEF SecretInv, TypeOK
<1>4. TypeOK' /\ Commanded' /\ Backward' /\ Forward'
  BY <1>1, <1>3 DEF SecretInv, TypeOK, Pc, Commanded, Backward, Restoring, Forward, Setting
<1>5. Resting'
  BY <1>1, <1>2, <1>3, NewFiles DEF Resting, Sealed, Setting, Restoring, ContainerOK
<1>6. Reported'
  BY <1>1, <1>2 DEF SecretInv, Reported, NewSecret, Verified, ProbeStatus
<1> QED BY <1>4, <1>5, <1>6 DEF SecretInv

------------------------------------------------------------------------------
(* The restore *)

LEMMA BeginRecoverKeeps ==
  ASSUME SecretInv, BeginRecover
  PROVE  SecretInv'
<1>1. /\ tx.state = "sealed" /\ pc' = "r_secret" /\ report' = "none"
      /\ cmd' = [NoCmd EXCEPT !.kind = "recover"]
      /\ UNCHANGED <<layout, secret, env, container, pending, residue, tx, before, faults>>
  BY DEF BeginRecover, Loads, files, host
<1>2. /\ cmd' \in Command /\ cmd'.kind = "recover" /\ cmd'.values = Empty /\ ~cmd'.check
  BY <1>1, Zenon DEF NoCmd, Command, Empty, Text
<1>3. cmd'.values.api = cmd'.values.token
  BY <1>2 DEF Empty, Keys
<1>4. TypeOK' /\ Commanded' /\ Forward' /\ Backward' /\ Reported'
  BY <1>1, <1>2, <1>3
     DEF SecretInv, TypeOK, Pc, Commanded, Forward, Backward, Reported, Setting, Restoring
<1>5. Resting'
  BY <1>1 DEF SecretInv, Resting, Sealed
<1> QED BY <1>4, <1>5 DEF SecretInv

\* A restore that ends before the directory is removed can be repeated.
LEMMA StopsKeeps ==
  ASSUME SecretInv, pc \in {"r_secret", "r_env", "r_apply"},
         UNCHANGED <<layout, tx, before, cmd>>, faults' \in 0 .. MaxFaults,
         secret' \in Secret, env' \in Env, ~tx.covers => env' = env,
         container' \in [Keys -> Env] \cup {None},
         pending' \in {pending, None, env}, residue' \in {residue, TRUE},
         pc' = "idle", report' \in {report, "failed"}
  PROVE  SecretInv'
<1>1. Sealed /\ report = "none"
  BY DEF SecretInv, Resting, Restoring, Reported
<1>2. TypeOK' /\ Commanded' /\ Forward' /\ Backward'
  <2>1. pending' \in Env \cup {None} /\ residue' \in BOOLEAN
        /\ report' \in {"none", "stored", "stored_checked", "restored", "failed", "recovered"}
    BY Zenon DEF SecretInv, TypeOK
  <2>2. TypeOK'
    BY <2>1, Zenon DEF SecretInv, TypeOK, Pc
  <2>3. Commanded' /\ Forward' /\ Backward'
    BY Zenon DEF SecretInv, Commanded, Forward, Backward, Setting, Restoring
  <2> QED BY <2>2, <2>3
<1>3. Reported'
  BY <1>1 DEF Reported
<1>4. Resting'
  BY <1>1 DEF Resting, Sealed
<1> QED BY <1>2, <1>3, <1>4 DEF SecretInv

LEMMA RestoreSecretKeeps ==
  ASSUME SecretInv, RestoreSecret
  PROVE  SecretInv'
<1>1. /\ pc = "r_secret" /\ UNCHANGED <<layout, env, container, pending, residue, tx, before, cmd>>
      /\ faults' \in 0 .. MaxFaults
      /\ \/ secret' = tx.secret /\ pc' = "r_env" /\ report' = report
         \/ /\ secret' \in {secret, Torn, tx.secret}
            /\ pc' = "idle" /\ report' \in {report, "failed"}
  BY SecretAssumption
     DEF RestoreSecret, host, Goto, Ends, Dies, NoFault, Fault, SecretInv, TypeOK
<1>2. secret' \in Secret /\ env' \in Env /\ container' \in [Keys -> Env] \cup {None}
  BY <1>1 DEF SecretInv, TypeOK, Transaction, Secret
<1>3. CASE pc' = "idle"
  BY <1>1, <1>2, <1>3, StopsKeeps
<1>4. CASE secret' = tx.secret /\ pc' = "r_env" /\ report' = report
  <2>1. /\ Sealed /\ report = "none" /\ cmd.kind \in {"set", "recover"}
        /\ cmd.kind = "set" /\ ~cmd.restarted => ContainerOK /\ pending = None
    BY <1>1 DEF SecretInv, Resting, Restoring, Reported, Backward
  <2>2. TypeOK' /\ Commanded' /\ Forward' /\ Reported'
    BY <1>1, <1>2, <1>4, <2>1 DEF SecretInv, TypeOK, Pc, Commanded, Forward, Setting, Reported
  <2>3. Resting'
    BY <1>1, <1>4, <2>1 DEF Resting, Sealed
  <2>4. Backward'
    BY <1>1, <1>4, <2>1 DEF Backward, ContainerOK
  <2> QED BY <2>2, <2>3, <2>4 DEF SecretInv
<1> QED BY <1>1, <1>3, <1>4

LEMMA RestoreEnvKeeps ==
  ASSUME SecretInv, RestoreEnv
  PROVE  SecretInv'
<1> DEFINE restored == IF tx.covers THEN tx.env ELSE env
<1>1. /\ pc = "r_env" /\ UNCHANGED <<layout, secret, container, pending, residue, tx, before, cmd>>
      /\ faults' \in 0 .. MaxFaults
      /\ \/ /\ env' = restored /\ report' = report
            /\ pc' = IF cmd.kind = "recover" \/ cmd.restarted THEN "r_apply" ELSE "r_finish"
         \/ /\ env' \in {env, restored} \cup (IF tx.covers THEN {Torn} ELSE {})
            /\ pc' = "idle" /\ report' \in {report, "failed"}
  BY SecretAssumption
     DEF RestoreEnv, host, Goto, Ends, Dies, NoFault, Fault, SecretInv, TypeOK
<1>2. /\ Sealed /\ report = "none" /\ cmd.kind \in {"set", "recover"} /\ secret = tx.secret
      /\ cmd.kind = "set" /\ ~cmd.restarted => ContainerOK /\ pending = None
  BY <1>1 DEF SecretInv, Resting, Restoring, Reported, Backward
<1>3. /\ secret' \in Secret /\ env' \in Env /\ container' \in [Keys -> Env] \cup {None}
      /\ ~tx.covers => env' = env
  BY <1>1 DEF SecretInv, TypeOK, Transaction, Env
<1>4. restored = tx.env
  BY <1>2 DEF Sealed
<1> HIDE DEF restored
<1>5. CASE pc' = "idle"
  BY <1>1, <1>3, <1>5, <1>2, StopsKeeps
<1>6. CASE /\ env' = restored /\ report' = report
           /\ pc' = IF cmd.kind = "recover" \/ cmd.restarted THEN "r_apply" ELSE "r_finish"
  <2>1. TypeOK' /\ Commanded' /\ Forward' /\ Reported'
    BY <1>1, <1>2, <1>3, <1>6 DEF SecretInv, TypeOK, Pc, Commanded, Forward, Setting, Reported
  <2>2. Resting'
    BY <1>1, <1>2, <1>3, <1>6 DEF Resting, Sealed
  <2>3. Backward'
    BY <1>1, <1>2, <1>4, <1>6 DEF Backward, ContainerOK
  <2> QED BY <2>1, <2>2, <2>3 DEF SecretInv
<1> QED BY <1>1, <1>5, <1>6

LEMMA RecreateRestoredKeeps ==
  ASSUME SecretInv, RecreateRestored
  PROVE  SecretInv'
<1>1. /\ pc = "r_apply" /\ UNCHANGED <<layout, secret, env, tx, before, cmd>>
      /\ faults' \in 0 .. MaxFaults /\ residue' \in {residue, TRUE}
      /\ \/ /\ container' = Created(secret, env) /\ pending' = None
            /\ pc' = "r_finish" /\ report' = report
         \/ /\ container' \in {container, None, Created(secret, env)}
            /\ pending' \in {pending, None, env}
            /\ pc' = "idle" /\ report' \in {report, "failed"}
  <2>1. faults' \in 0 .. MaxFaults
    BY SecretAssumption DEF RecreateRestored, NoFault, Fault, SecretInv, TypeOK
  <2>2. pc = "r_apply" /\ UNCHANGED <<layout, secret, env, tx, before, cmd>>
    BY DEF RecreateRestored, files, Goto, Ends, Dies
  <2> QED BY <2>1, <2>2, Zenon
          DEF RecreateRestored, Applied, ApplyRefused, ApplyFails, Admits, DockerLeaves, host,
              Goto, Ends, Dies
<1>2. /\ Sealed /\ report = "none" /\ cmd.kind \in {"set", "recover"}
      /\ secret = tx.secret /\ env = tx.env
  BY <1>1 DEF SecretInv, Resting, Restoring, Reported, Backward
<1>3. secret \in Secret /\ env \in Env /\ container \in [Keys -> Env] \cup {None}
  BY DEF SecretInv, TypeOK
<1>4. /\ Created(secret, env) \in [Keys -> Env]
      /\ Created(secret, env).api = Created(secret, env).token
  BY <1>2, <1>3, CreatedOK DEF Sealed
<1>5. CASE pc' = "idle"
  BY <1>1, <1>3, <1>4, <1>5, StopsKeeps, Zenon
<1>6. CASE container' = Created(secret, env) /\ pending' = None /\ pc' = "r_finish"
           /\ report' = report
  <2>1. TypeOK' /\ Commanded' /\ Forward' /\ Reported'
    BY <1>1, <1>2, <1>4, <1>6, Zenon
       DEF SecretInv, TypeOK, Pc, Commanded, Forward, Setting, Reported
  <2>2. Resting'
    BY <1>1, <1>2, <1>6 DEF Resting, Sealed
  <2>3. Backward'
    BY <1>1, <1>2, <1>4, <1>6 DEF Backward, ContainerOK
  <2> QED BY <2>1, <2>2, <2>3 DEF SecretInv
<1> QED BY <1>1, <1>5, <1>6

LEMMA FinishRestoredKeeps ==
  ASSUME SecretInv, FinishRestored
  PROVE  SecretInv'
<1>1. /\ pc = "r_finish"
      /\ UNCHANGED <<layout, secret, env, container, pending, residue, before, cmd>>
      /\ faults' \in 0 .. MaxFaults /\ pc' = "idle"
      /\ tx' \in {tx, [tx EXCEPT !.state = "damaged"], NoTx}
      /\ \/ cmd.kind = "set" /\ report' = "restored"
         \/ cmd.kind # "set" /\ report' \in {report, "recovered"}
  BY SecretAssumption
     DEF FinishRestored, files, host, Ends, Dies, NoFault, Fault, Removed, PartlyRemoved,
         SecretInv, TypeOK
<1>2. /\ Sealed /\ report = "none" /\ secret = tx.secret /\ env = tx.env
      /\ ContainerOK /\ pending = None
      /\ cmd.restarted => container = Created(secret, env)
  BY <1>1 DEF SecretInv, Resting, Restoring, Reported, Backward
<1>3. tx' \in Transaction /\ (tx' = tx \/ tx'.state # "sealed")
  BY <1>1, PartlyGone DEF SecretInv, TypeOK
<1>4. TypeOK' /\ Commanded' /\ Backward' /\ Forward'
  BY <1>1, <1>3 DEF SecretInv, TypeOK, Pc, Commanded, Backward, Restoring, Forward, Setting
<1>5. Resting'
  BY <1>1, <1>2, <1>3 DEF Resting, Sealed, Setting, Restoring, ContainerOK
<1>6. Reported'
  <2>1. before = [secret |-> secret, env |-> env]
    BY <1>2 DEF Sealed, SecretInv, TypeOK
  <2> QED BY <1>1, <1>2, <2>1 DEF Reported
<1> QED BY <1>4, <1>5, <1>6 DEF SecretInv

\* A rollback is pending only while the transaction waits for recover.
LEMMA RollbackKeeps ==
  ASSUME SecretInv, Rollback
  PROVE  SecretInv'
<1>1. /\ pc = "idle" /\ pending # None /\ env' = pending /\ pending' = None
      /\ container' = Created(secret, pending)
      /\ UNCHANGED <<layout, secret, residue, tx, cmd, pc, report, before, faults>>
  BY DEF Rollback
<1>2. Sealed /\ report \notin {"stored", "stored_checked", "restored"}
  BY <1>1 DEF SecretInv, Resting, Reported
<1>3. secret \in Secret /\ pending \in Env
  BY <1>1 DEF SecretInv, TypeOK
<1>4. TypeOK' /\ Commanded' /\ Backward' /\ Forward'
  BY <1>1, <1>3, CreatedOK
     DEF SecretInv, TypeOK, Commanded, Backward, Restoring, Forward, Setting
<1>5. Resting'
  BY <1>1, <1>2 DEF Resting, Sealed
<1>6. Reported'
  BY <1>1, <1>2 DEF SecretInv, Reported
<1> QED BY <1>4, <1>5, <1>6 DEF SecretInv

\* What is in the backup directory matters to nothing that was written.
LEMMA BackupRootKeeps ==
  ASSUME SecretInv, UNCHANGED vars \/ ClearResidue
  PROVE  SecretInv'
<1>1. /\ UNCHANGED <<layout, secret, env, container, pending, tx, cmd, pc, report, before, faults>>
      /\ residue' \in BOOLEAN
  BY Zenon DEF vars, files, host, ClearResidue, SecretInv, TypeOK
<1>2. TypeOK' /\ Commanded'
  BY <1>1 DEF SecretInv, TypeOK, Commanded
<1>3. Resting' /\ Backward'
  BY <1>1 DEF SecretInv, Resting, Sealed, ContainerOK, Backward
<1>4. Forward' /\ Reported'
  BY <1>1 DEF SecretInv, Forward, Reported, ContainerOK, Verified, ProbeStatus, NewSecret,
              NewEnv, CoversEnv
<1> QED BY <1>2, <1>3, <1>4 DEF SecretInv

------------------------------------------------------------------------------
(* The theorems *)

LEMMA SecretBegins ==
  Init => SecretInv
<1> SUFFICES ASSUME Init PROVE SecretInv
  OBVIOUS
<1>1. secret \in Secret /\ env \in Env /\ Whole(secret, env)
  <2>1. CASE layout # "none"
    BY <2>1 DEF Init, Secret, Env
  <2>2. CASE layout = "none"
    <3>1. secret = Absent /\ env = NoValue
      BY <2>2 DEF Init
    <3>2. Parse(secret) = Empty
      BY <3>1 DEF Parse
    <3> QED BY <3>1, <3>2, SecretAssumption DEF Whole, Empty, Keys, Secret, Env
  <2> QED BY <2>1, <2>2
<1>2. container \in [Keys -> Env] \cup {None} /\ ContainerOK
  BY <1>1, CreatedOK DEF Init, ContainerOK
<1>3. NoTx \in Transaction /\ NoTx.state = "none"
  BY DEF NoTx, Transaction, Secret, Env
<1>4. Empty \in Text /\ Empty.api = Empty.token
  BY DEF Empty, Text, Keys
<1>5. NoCmd \in Command /\ NoCmd.values = Empty /\ ~NoCmd.check
  BY <1>4 DEF NoCmd, Command
<1>6. TypeOK
  <2>1. faults \in 0 .. MaxFaults
    BY SecretAssumption DEF Init
  <2>2. before \in [secret : Secret, env : Env]
    BY <1>1 DEF Init
  <2> QED BY <1>1, <1>2, <1>3, <1>5, <2>1, <2>2, Zenon DEF Init, TypeOK, Pc
<1>7. Commanded /\ Resting /\ Forward /\ Backward /\ Reported
  BY <1>1, <1>2, <1>3, <1>4, <1>5
     DEF Init, Commanded, Resting, Forward, Backward, Reported, Setting, Restoring
<1> QED BY <1>6, <1>7 DEF SecretInv

LEMMA SecretStep ==
  ASSUME SecretInv, [Next]_vars
  PROVE  SecretInv'
<1>1. CASE UNCHANGED vars \/ ClearResidue
  BY <1>1, BackupRootKeeps, Zenon
<1>2. CASE SetStep
  BY <1>2, SealKeeps, WriteSecretKeeps, SyncEnvKeeps, RecreateKeeps, CheckKeeps, LogKeeps,
     FinishKeeps DEF SetStep
<1>3. CASE RestoreStep
  BY <1>3, RestoreSecretKeeps, RestoreEnvKeeps, RecreateRestoredKeeps, FinishRestoredKeeps
     DEF RestoreStep
<1> QED BY <1>1, <1>2, <1>3, BeginSetKeeps, BeginRecoverKeeps, RollbackKeeps DEF Next

LEMMA SecretAlways ==
  Spec => []SecretInv
<1> QED BY SecretBegins, SecretStep, PTL DEF Spec

\* A set, or the restore of one, that is killed or fails at any step leaves one
\* gateway key in both files and in the container, or a transaction with the
\* files before the set that recover accepts (_begin_secret_transaction,
\* _restore_secret_transaction).
THEOREM RotationIsWhole ==
  Spec => []NoHalfRotation
<1>1. SecretInv => NoHalfRotation
  BY DEF SecretInv, Resting, Sealed, ContainerOK, NoHalfRotation
<1> QED BY <1>1, SecretAlways, PTL

\* runtime-secret set reports a value as stored, as checked or as rolled back
\* only when fingerprint, status, probe and the files say the same.
THEOREM ReportsAreTrue ==
  Spec => []SetReportsTruth
<1>1. ASSUME SecretInv PROVE SetReportsTruth
  <2>1. ASSUME report \in {"stored", "stored_checked"}
        PROVE  /\ FingerprintRow("api") = FingerprintRow("token")
               /\ \A k \in Keys : cmd.values[k] # NoValue =>
                    /\ FingerprintRow(k).fingerprint = cmd.values[k]
                    /\ <<k, "present">> \in StatusLines
               /\ FingerprintRc({FingerprintRow(k) :
                                   k \in {j \in {"api", "token"} : CoversEnv}}) = 0
    <3>1. secret = Upsert(before.secret, cmd.values) /\ Whole(secret, env)
      BY <1>1, <2>1 DEF SecretInv, Reported, NewSecret
    <3>2. before.secret \in Secret /\ cmd.values \in Text
      BY <1>1 DEF SecretInv, TypeOK, Command
    <3>3. /\ secret # Absent /\ secret # Torn /\ Parse(secret) = secret
          /\ \A k \in Keys : cmd.values[k] # NoValue => secret[k] = cmd.values[k]
      BY <3>1, <3>2, UpsertOK
    <3>4. secret.api = secret.token
      BY <3>1, <3>3 DEF Whole
    <3>5. \A k \in Keys :
            FingerprintRow(k) = [state |-> IF secret[k] = NoValue THEN "MISSING" ELSE "PRESENT",
                                 fingerprint |-> secret[k]]
      BY <3>3 DEF FingerprintRow
    <3>6. FingerprintRow("api") = FingerprintRow("token")
      BY <3>4, <3>5 DEF Keys
    <3>7. ASSUME NEW k \in Keys, cmd.values[k] # NoValue
          PROVE  FingerprintRow(k).fingerprint = cmd.values[k] /\ <<k, "present">> \in StatusLines
      <4>1. FingerprintRow(k).fingerprint = cmd.values[k]
        BY <3>3, <3>5, <3>7
      <4>2. <<k, TRUE>> \in StatusRows.rows
        <5>1. StatusRows.rows = {<<l, secret[l] # NoValue>> : l \in Keys}
          BY <3>3 DEF StatusRows
        <5>2. (secret[k] # NoValue) = TRUE
          BY <3>3, <3>7
        <5> QED BY <5>1, <5>2, Zenon
      <4>3. <<k, "present">> \in StatusLines
        <5>1. PICK r \in StatusRows.rows : r = <<k, TRUE>>
          BY <4>2, Zenon
        <5>2. <<r[1], IF r[2] THEN "present" ELSE "absent">> = <<k, "present">>
          BY <5>1
        <5> QED BY <5>2, Zenon DEF StatusLines
      <4> QED BY <4>1, <4>3
    <3>8. FingerprintRc({FingerprintRow(k) : k \in {j \in {"api", "token"} : CoversEnv}}) = 0
      <4> DEFINE rows == {FingerprintRow(k) : k \in {j \in {"api", "token"} : CoversEnv}}
      <4>1. ASSUME NEW r \in rows
            PROVE  r = FingerprintRow("api") /\ r.state = "PRESENT"
        <5>1. CoversEnv /\ r = FingerprintRow("api")
          BY <3>6
        <5>2. secret.api # NoValue
          BY <3>3, <5>1 DEF CoversEnv, Keys
        <5> QED BY <3>5, <5>1, <5>2 DEF Keys
      <4> HIDE DEF rows
      <4>2. FingerprintRc(rows) = 0
        BY <4>1 DEF FingerprintRc
      <4> QED BY <4>2 DEF rows
    <3> QED BY <3>6, <3>7, <3>8
  <2>2. ASSUME report = "stored_checked"
        PROVE  /\ container = Created(secret, env)
               /\ cmd.values.provider # NoValue => ProbeStatus = "valid" /\ ProbeRc = 0
    <3>1. Verified
      BY <1>1, <2>2 DEF SecretInv, Reported
    <3>2. ProbeStatus = "valid" => ProbeRc = 0
      BY DEF ProbeStatus, ProbeRc
    <3> QED BY <3>1, <3>2 DEF Verified
  <2>3. report = "restored" =>
          /\ before = [secret |-> secret, env |-> env]
          /\ cmd.restarted => container = Created(secret, env)
    BY <1>1 DEF SecretInv, Reported
  <2> QED BY <2>1, <2>2, <2>3 DEF SetReportsTruth
<1>2. SecretInv => SetReportsTruth
  BY <1>1
<1> QED BY <1>2, SecretAlways, PTL
==============================================================================
