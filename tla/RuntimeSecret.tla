---------------------------- MODULE RuntimeSecret ----------------------------
(***************************************************************************)
(* `opsctl runtime-secret' on one slot: set rewrites the secret file and,  *)
(* for the gateway key, the slot's .env, recreates the container from them *)
(* and checks it; a failure puts the files back from the transaction       *)
(* directory <slot>.lock, and `recover' does so for a set that was killed. *)
(* The directory keeps a second set out.  A command may be killed, and any *)
(* write, docker command or apply may fail, at every step.  One command    *)
(* runs at a time.  The whole of apply_desired_slot is one step here.      *)
(***************************************************************************)
EXTENDS Integers

CONSTANTS
  Value,        \* the values a secret may have
  Accepted,     \* the values the provider accepts
  NoValue,      \* a key without a value; of .env: no file
  Absent,       \* a secret file that is not there
  Torn,         \* a file cut off by a kill between truncation and the last byte
  None,
  MaxFaults     \* bound: kills and failures

\* The gateway key, the alias that has to equal it, and a provider's key.
Keys   == {"api", "token", "provider"}
Text   == [Keys -> Value \cup {NoValue}]
Empty  == [k \in Keys |-> NoValue]

Secret == Text \cup {Absent, Torn}
Env    == Value \cup {NoValue, Torn}

VARIABLES
  layout,       \* the slot's compose files: none, those of an older layout, or opsctl's
  secret,       \* the profile's first secret file
  env,          \* API_SERVER_KEY in the slot's .env
  container,    \* the environment the running container was created with
  tx,           \* runtime-secret-transactions/<slot>.lock
  pending,      \* the .env in the recovery point of an unfinished apply, or None
  residue,      \* an apply left the staging directory of its backup behind
  cmd,          \* the command that runs, or ran last
  pc,           \* its next step
  report,       \* what it has reported
  before,       \* history: the files as its set found them
  faults

files == <<secret, env>>
host  == <<container, pending, residue>>
vars  == <<layout, files, host, tx, cmd, pc, report, before, faults>>

Transaction == [state : {"none", "open", "sealed", "damaged"},
                secret : Secret, env : Env, covers : BOOLEAN]
Command == [kind : {"none", "set", "recover"}, values : Text,
            mode : {"no_restart", "unsafe", "full"}, check : BOOLEAN, restarted : BOOLEAN]
Pc == {"idle", "seal", "write", "sync", "recreate", "check", "log", "finish",
       "r_secret", "r_env", "r_apply", "r_finish", "r_log"}

ASSUME SecretAssumption ==
  /\ Accepted \subseteq Value
  /\ {NoValue, None, Absent, Torn} \cap Value = {}
  /\ {Absent, Torn, None} \cap Text = {}
  /\ Torn \notin {Absent, NoValue}
  /\ MaxFaults \in Nat

\* The state is well formed.
TypeOK ==
  /\ layout \in {"none", "legacy", "agent"}
  /\ secret \in Secret /\ env \in Env
  /\ container \in [Keys -> Env] \cup {None}
  /\ tx \in Transaction
  /\ pending \in Env \cup {None} /\ residue \in BOOLEAN
  /\ cmd \in Command /\ pc \in Pc
  /\ report \in {"none", "stored", "stored_checked", "restored", "failed", "recovered"}
  /\ before \in [secret : Secret, env : Env]
  /\ faults \in 0..MaxFaults

NoTx  == [state |-> "none", secret |-> Absent, env |-> NoValue, covers |-> FALSE]
NoCmd == [kind |-> "none", values |-> Empty, mode |-> "full", check |-> FALSE, restarted |-> FALSE]

----------------------------------------------------------------------------
\* Values, files and the container's environment.

\* Mutant: only the gateway key is passed on to its alias.
ExpandOneWay(given) ==
  [given EXCEPT !.token = IF given.api = NoValue THEN @ ELSE given.api]

\* expand_runtime_secret_aliases: a pair of which one is given gets both.
Expand(given) ==
  [given EXCEPT !.api   = IF @ = NoValue THEN given.token ELSE @,
                !.token = IF @ = NoValue THEN given.api ELSE @]

\* validate_runtime_secret_values: aliases that differ are refused, and so is
\* an input without a value.
Supported(given) ==
  /\ given # Empty
  /\ given.api = given.token \/ NoValue \in {given.api, given.token}

\* parse_secret_env_text; a missing file has no values.
Parse(s) == IF s \in {Absent, Torn} THEN Empty ELSE s

\* render_upserted_secret_env: the given keys are replaced or appended.
Upsert(s, values) ==
  [k \in Keys |-> IF values[k] = NoValue THEN Parse(s)[k] ELSE values[k]]

\* The compose file reads .env, then the secret file, and sets the alias to the
\* gateway key of .env.
Created(s, e) ==
  [api |-> IF Parse(s).api = NoValue THEN e ELSE Parse(s).api,
   token |-> e, provider |-> Parse(s).provider]

\* probe_key_in_container and classify_probe_output, of a provider that answers.
ProbeStatus ==
  IF container = None THEN "error"
  ELSE IF container.provider = NoValue THEN "absent"
  ELSE IF container.provider \in Accepted THEN "valid" ELSE "invalid"

\* _runtime_secret_fingerprint_row: two values agree when their digests do.
FingerprintRow(k) ==
  [state |-> IF secret = Absent THEN "FILE_MISSING"
             ELSE IF secret = Torn THEN "PARSE_FAILED"
             ELSE IF secret[k] = NoValue THEN "MISSING" ELSE "PRESENT",
   fingerprint |-> Parse(secret)[k]]

\* runtime-secret fingerprint, of the rows of its targets: 2 if one cannot be
\* read, 0 if all of them have the same value.
FingerprintRc(rows) ==
  IF \E r \in rows : r.state \in {"FILE_MISSING", "PARSE_FAILED"} THEN 2
  ELSE IF \A r, q \in rows : r.state = "PRESENT" /\ r.fingerprint = q.fingerprint THEN 0
  ELSE 1

\* _secret_status_rows: only a file that can be read has rows.
StatusRows ==
  IF secret = Absent THEN [state |-> "missing", rows |-> {}]
  ELSE IF secret = Torn THEN [state |-> "parse_failed", rows |-> {}]
  ELSE [state |-> "present", rows |-> {<<k, secret[k] # NoValue>> : k \in Keys}]

\* runtime-secret status prints each row as present or absent.
StatusLines == {<<r[1], IF r[2] THEN "present" ELSE "absent">> : r \in StatusRows.rows}

\* runtime-secret probe: a key that is absent or cannot be judged is no error.
ProbeRc ==
  IF container = None THEN 2 ELSE IF ProbeStatus = "invalid" THEN 1 ELSE 0

\* The gateway key is the same wherever it is kept.
Whole(s, e) ==
  /\ s # Torn /\ e # Torn
  /\ Parse(s).api = Parse(s).token /\ Parse(s).api \in {NoValue, e}

----------------------------------------------------------------------------
\* A slot without compose files has no other files either; one with them has
\* both, and a container.
Init ==
  /\ layout \in {"none", "legacy", "agent"}
  /\ env \in IF layout # "none" THEN Value ELSE {NoValue}
  /\ secret \in IF layout # "none" THEN {t \in Text : Whole(t, env)} ELSE {Absent}
  /\ container = IF layout # "none" THEN Created(secret, env) ELSE None
  /\ tx = NoTx /\ pending = None /\ residue = FALSE
  /\ cmd = NoCmd /\ pc = "idle" /\ report = "none"
  /\ before = [secret |-> secret, env |-> env] /\ faults = 0

Fault   == faults < MaxFaults /\ faults' = faults + 1
NoFault == UNCHANGED faults

Goto(l) == pc' = l /\ UNCHANGED <<cmd, report>>

\* The command is killed, or ends with an exception: its transaction stays.
Dies == pc' = "idle" /\ UNCHANGED <<cmd, report>>

Ends(r) == pc' = "idle" /\ report' = r /\ UNCHANGED cmd

\* A failure leads to the restore; a kill leads nowhere.
Undoes == Goto("r_secret") \/ Dies

----------------------------------------------------------------------------
\* runtime-secret set

\* Up to the directory of the transaction; an input that is refused, or a
\* directory that exists, ends the command without a trace.
BeginSet(given, mode, check) ==
  /\ pc = "idle" /\ tx.state = "none" /\ Supported(given)
  /\ tx' = [NoTx EXCEPT !.state = "open"]
  /\ cmd' = [kind |-> "set", values |-> Expand(given), mode |-> mode,
             check |-> check /\ mode # "no_restart", restarted |-> FALSE]
  /\ before' = [secret |-> secret, env |-> env]
  /\ pc' = "seal" /\ report' = "none"
  /\ UNCHANGED <<layout, files, host, faults>>

CoversEnv == cmd.values.api # NoValue

\* The copies and the manifest.  A failure removes the directory; a kill leaves
\* one without a manifest, and nothing has been written.
Seal ==
  /\ pc = "seal"
  /\ UNCHANGED <<layout, files, host, before>>
  /\ \/ /\ tx' = [state |-> "sealed", secret |-> secret, env |-> env, covers |-> CoversEnv]
        /\ Goto("write") /\ NoFault
     \/ tx' = NoTx /\ Ends("failed") /\ Fault
     \/ UNCHANGED tx /\ Dies /\ Fault

\* The secret file is truncated and written in place.
WriteSecret ==
  LET written == Upsert(secret, cmd.values)
  IN /\ pc = "write"
     /\ UNCHANGED <<layout, env, host, tx, before>>
     /\ \/ secret' = written /\ Goto("sync") /\ NoFault
        \/ secret' \in {secret, Torn, written} /\ Undoes /\ Fault

\* Mutant: .env keeps its key.
SyncEnvForgotten ==
  /\ pc = "sync"
  /\ UNCHANGED <<layout, files, host, tx, before>>
  /\ Goto(IF cmd.mode = "no_restart" THEN "log" ELSE "recreate") /\ NoFault

\* .env is replaced as a whole.
SyncEnv ==
  LET synced == IF CoversEnv THEN cmd.values.api ELSE env
      next   == IF cmd.mode = "no_restart" THEN "log" ELSE "recreate"
  IN /\ pc = "sync"
     /\ UNCHANGED <<layout, secret, host, tx, before>>
     /\ \/ env' = synced /\ Goto(next) /\ NoFault
        \/ env' \in {env, synced} /\ Undoes /\ Fault

----------------------------------------------------------------------------
\* apply_desired_slot: refused for a slot that was never applied, while an
\* earlier apply is to be rolled back, and where the backup directory holds
\* what it does not know.
Admits == layout = "agent" /\ pending = None /\ ~residue

Applied == Admits /\ container' = Created(secret, env) /\ UNCHANGED <<pending, residue>>

ApplyRefused == ~Admits /\ UNCHANGED host

DockerLeaves == container' \in {container, None, Created(secret, env)}

\* A failure may leave a rollback pending.  One while the backup is staged (a
\* kill, or a failure whose removal fails as well) leaves the staging directory.
ApplyFails ==
  /\ Admits
  /\ \/ DockerLeaves /\ pending' \in {None, env} /\ UNCHANGED residue
     \/ residue' = TRUE /\ UNCHANGED <<container, pending>>

\* _unsafe_service_recreate_after_runtime_secret_set: docker compose up alone,
\* with opsctl's compose file or else with those of the older layout.
UnsafeRecreated ==
  /\ layout \in {"agent", "legacy"}
  /\ container' = Created(secret, env) /\ UNCHANGED <<pending, residue>>

UnsafeRefused == layout = "none" /\ UNCHANGED host

UnsafeFails == layout # "none" /\ DockerLeaves /\ UNCHANGED <<pending, residue>>

Recreate ==
  LET tried == [cmd EXCEPT !.restarted = TRUE]
      next  == IF cmd.check THEN "check" ELSE "log"
      Moves(l) == pc' = l /\ cmd' = tried /\ UNCHANGED report
  IN /\ pc = "recreate"
     /\ UNCHANGED <<layout, files, tx, before>>
     /\ \/ cmd.mode = "full" /\ Applied /\ Moves(next) /\ NoFault
        \/ cmd.mode = "full" /\ ApplyRefused /\ Moves("r_secret") /\ NoFault
        \/ cmd.mode = "full" /\ ApplyFails /\ (Moves("r_secret") \/ Dies) /\ Fault
        \/ cmd.mode = "unsafe" /\ UnsafeRecreated /\ Moves(next) /\ NoFault
        \/ cmd.mode = "unsafe" /\ UnsafeRefused /\ Moves("r_secret") /\ NoFault
        \/ cmd.mode = "unsafe" /\ UnsafeFails /\ (Moves("r_secret") \/ Dies) /\ Fault

\* The container holds every value that was set, the gateway key under both
\* names, and the provider accepts its key.
ServesValues ==
  /\ container # None
  /\ \A k \in Keys : cmd.values[k] # NoValue => container[k] = cmd.values[k]
  /\ cmd.values.api # NoValue => container.api = container.token
  /\ cmd.values.provider # NoValue => ProbeStatus = "valid"

\* The checks are repeated until they pass once or the time is up: only a
\* failure that lasts counts.
FailsToTheEnd == ~ServesValues

\* --check; the lookup, the probe and the smoke test may fail as well.
Check ==
  /\ pc = "check"
  /\ UNCHANGED <<layout, files, host, tx, before>>
  /\ \/ ServesValues /\ Goto("log") /\ NoFault
     \/ FailsToTheEnd /\ Goto("r_secret") /\ NoFault
     \/ Undoes /\ Fault

\* The action log; if it fails the exception leaves the transaction behind.
Log ==
  /\ pc = "log"
  /\ UNCHANGED <<layout, files, host, tx, before>>
  /\ \/ /\ report' = IF cmd.check THEN "stored_checked" ELSE "stored"
        /\ pc' = "finish" /\ UNCHANGED cmd /\ NoFault
     \/ Dies /\ Fault

\* rmtree: entry by entry, so that a kill may leave a directory that no longer
\* has its manifest or its copies.
Removed == tx' = NoTx
PartlyRemoved == tx' \in {tx, [tx EXCEPT !.state = "damaged"], NoTx}

Finish ==
  /\ pc = "finish"
  /\ UNCHANGED <<layout, files, host, before>>
  /\ \/ Removed /\ Dies /\ NoFault
     \/ PartlyRemoved /\ Dies /\ Fault

----------------------------------------------------------------------------
\* _load_secret_transaction: only a directory with its manifest is loaded.
Loads == tx.state = "sealed"

\* runtime-secret recover
BeginRecover ==
  /\ pc = "idle" /\ Loads
  /\ cmd' = [NoCmd EXCEPT !.kind = "recover"]
  /\ pc' = "r_secret" /\ report' = "none"
  /\ UNCHANGED <<layout, files, host, tx, before, faults>>

\* Mutant: a target that does not parse is refused.
RestoreSecretIfSound ==
  /\ pc = "r_secret"
  /\ UNCHANGED <<layout, env, host, tx, before>> /\ NoFault
  /\ IF secret = Torn THEN UNCHANGED secret /\ Ends("failed")
     ELSE secret' = tx.secret /\ Goto("r_env")

\* _restore_secret_transaction: each file is copied in place and verified, or
\* removed if it was not there.
RestoreSecret ==
  /\ pc = "r_secret"
  /\ UNCHANGED <<layout, env, host, tx, before>>
  /\ \/ secret' = tx.secret /\ Goto("r_env") /\ NoFault
     \/ secret' \in {secret, Torn, tx.secret} /\ (Ends("failed") \/ Dies) /\ Fault

RestoreEnv ==
  LET restored == IF tx.covers THEN tx.env ELSE env
      next     == IF cmd.kind = "recover" \/ cmd.restarted THEN "r_apply" ELSE "r_finish"
  IN /\ pc = "r_env"
     /\ UNCHANGED <<layout, secret, host, tx, before>>
     /\ \/ env' = restored /\ Goto(next) /\ NoFault
        \/ /\ env' \in {env, restored} \cup (IF tx.covers THEN {Torn} ELSE {})
           /\ (Ends("failed") \/ Dies) /\ Fault

\* The container is recreated from the restored files.
RecreateRestored ==
  /\ pc = "r_apply"
  /\ UNCHANGED <<layout, files, tx, before>>
  /\ \/ Applied /\ Goto("r_finish") /\ NoFault
     \/ ApplyRefused /\ Ends("failed") /\ NoFault
     \/ ApplyFails /\ (Ends("failed") \/ Dies) /\ Fault

\* set reports before it removes the directory, recover after it.
FinishRestored ==
  LET r == IF cmd.kind = "set" THEN "restored" ELSE "recovered"
  IN /\ pc = "r_finish"
     /\ UNCHANGED <<layout, files, host, before>>
     /\ \/ Removed /\ Ends(r) /\ NoFault
        \/ PartlyRemoved /\ (IF cmd.kind = "set" THEN Ends(r) ELSE Dies) /\ Fault

----------------------------------------------------------------------------
\* `opsctl rollback' finishes a pending rollback: .env and the container are
\* those of the recovery point.
Rollback ==
  /\ pc = "idle" /\ pending # None
  /\ env' = pending /\ container' = Created(secret, pending) /\ pending' = None
  /\ UNCHANGED <<layout, secret, residue, tx, cmd, pc, report, before, faults>>

\* The administrator removes the staging directory: no command does.
ClearResidue ==
  /\ pc = "idle" /\ residue /\ residue' = FALSE
  /\ UNCHANGED <<layout, files, container, pending, tx, cmd, pc, report, before, faults>>

SetStep == Seal \/ WriteSecret \/ SyncEnv \/ Recreate \/ Check \/ Log \/ Finish
RestoreStep == RestoreSecret \/ RestoreEnv \/ RecreateRestored \/ FinishRestored

Next ==
  \/ \E given \in Text, mode \in {"no_restart", "unsafe", "full"}, check \in BOOLEAN :
        BeginSet(given, mode, check)
  \/ SetStep \/ BeginRecover \/ RestoreStep \/ Rollback \/ ClearResidue

Spec == Init /\ [][Next]_vars

\* A command that was started runs on; an operator who finds a transaction left
\* behind finishes a pending rollback and repeats recover.
FairSpec ==
  /\ Spec
  /\ WF_vars(SetStep \/ RestoreStep)
  /\ SF_vars(Rollback) /\ WF_vars(BeginRecover)

----------------------------------------------------------------------------
\* Properties.

\* What set reports is true.  A value reported as stored is the one that
\* fingerprint and status show, with its alias; after --check the container
\* serves it and the provider takes it.  A rollback reported as verified has left
\* nothing behind: both files are as the set found them, and a container it had
\* recreated was created from them again (fail_and_restore).
SetReportsTruth ==
  /\ report \in {"stored", "stored_checked"} =>
       /\ FingerprintRow("api") = FingerprintRow("token")
       /\ \A k \in Keys : cmd.values[k] # NoValue =>
            /\ FingerprintRow(k).fingerprint = cmd.values[k]
            /\ <<k, "present">> \in StatusLines
       /\ FingerprintRc({FingerprintRow(k) : k \in {j \in {"api", "token"} : CoversEnv}}) = 0
  /\ report = "stored_checked" =>
       /\ container = Created(secret, env)
       /\ cmd.values.provider # NoValue => ProbeStatus = "valid" /\ ProbeRc = 0
  /\ report = "restored" =>
       /\ before = [secret |-> secret, env |-> env]
       /\ cmd.restarted => container = Created(secret, env)

\* Whatever fails or is killed, and however often, a rotation is never left
\* half done: unless a transaction that recover accepts is there, the secret
\* file and .env hold one gateway key, and the container knows it by both names
\* (a container with two keys answers HTTP 401 to its own workspace).  While a
\* transaction waits for recover, its copies are the files before the set, and
\* they belong together.
NoHalfRotation ==
  /\ TypeOK
  /\ pc = "idle" /\ tx.state # "sealed" =>
       /\ Whole(secret, env)
       /\ container # None => container.api = container.token
  /\ tx.state = "sealed" =>
       /\ tx.secret = before.secret /\ tx.env = before.env
       /\ Whole(tx.secret, tx.env)

\* A transaction left behind on a slot that was applied is finished by an operator
\* who repeats rollback and recover, after any kills and failures.  One thing the
\* commands do not mend: an apply killed while it stages its backup leaves a
\* directory for which every later apply is refused, recover's with them, until
\* the administrator has removed it.
RotationSettles ==
  []<>~residue => ((layout = "agent" /\ tx.state = "sealed") ~> (tx.state # "sealed"))
==============================================================================
