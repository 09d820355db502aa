------------------------------- MODULE Deploy -------------------------------
(***************************************************************************)
(* scripts/deploy-testnet.sh, run again and again on a working copy whose  *)
(* contract changes: it deploys, makes sure of what it deployed, generates *)
(* the client from the deployed contract, and edits the records that the   *)
(* web application and its readers go by.  Any step may fail and end the   *)
(* run (set -e, die, an interrupt); nothing is rolled back.                *)
(*                                                                         *)
(* The records are edited by patterns (sed), and an edit whose pattern no  *)
(* line has does nothing.  A transaction is a number, and a contract is    *)
(* named after the transaction that deployed it.                           *)
(***************************************************************************)
EXTENDS Naturals, Nothing

CONSTANTS
    Wasm,          \* the builds of the contract
    Matched,       \* the files, .env.example and README.md, that have the lines edited
    MaxDeploys     \* bound: transactions sent

ASSUME DeployAssumption ==
    None \notin Nat \cup Wasm /\ Matched \subseteq {"env", "readme"} /\ MaxDeploys \in Nat \ {0, 1}

VARIABLES
    sent,        \* the transactions sent so far
    uploaded,    \* the transaction that put each build on the network, or None
    deployed,    \* deployed[c]: the build that contract c runs
    client,      \* the contract that packages/showup-bond-client was generated from
    env,         \* the contract in .env.example
    readme,      \* README.md: the contract, and the upload it names
    record,      \* docs/deployments/testnet.md: the contract, the hash of the build, the upload
    script       \* the run under way, or None; what it did when it ended well

chain == <<sent, uploaded, deployed>>
files == <<client, env, readme, record>>
deployVars == <<sent, uploaded, deployed, client, env, readme, record, script>>

AtStep(step) == script # None /\ script.step = step
Goto(step) == script' = [script EXCEPT !.step = step]

-----------------------------------------------------------------------------
\* The checks of the network, the identities, the accounts and the token, and
\* the build: a dry run ends after them.
Start(w) ==
    /\ script # None => script.step = "done"
    /\ \/ script' = [step |-> "deploying", wasm |-> w, contract |-> None,
                     upload |-> None, known |-> None]
       \/ script' = None                             \* --dry-run
    /\ UNCHANGED <<chain, files>>

\* stellar contract deploy: the build is uploaded unless the network has it.
Upload ==
    /\ AtStep("deploying") /\ uploaded[script.wasm] = None
    /\ sent < MaxDeploys
    /\ sent' = sent + 1
    /\ uploaded' = [uploaded EXCEPT ![script.wasm] = sent + 1]
    /\ script' = [script EXCEPT !.upload = sent + 1]
    /\ UNCHANGED <<deployed, files>>

Create ==
    /\ AtStep("deploying") /\ uploaded[script.wasm] # None
    /\ sent < MaxDeploys
    /\ sent' = sent + 1
    /\ deployed' = [deployed EXCEPT ![sent + 1] = script.wasm]
    /\ script' = [script EXCEPT !.contract = sent + 1, !.step = "verifying"]
    /\ UNCHANGED <<uploaded, files>>

\* get_config, the smoke event and get_event answer as they should.
Verify == AtStep("verifying") /\ Goto("generating") /\ UNCHANGED <<chain, files>>

\* The client is overwritten before anything is recorded.
Generate ==
    /\ AtStep("generating")
    /\ client' = script.contract
    /\ Goto("recording")
    /\ UNCHANGED <<chain, env, readme, record>>

\* Faulty variant: a recorded upload is taken to be that of this build.
KnownUploadOfAnyBuild(wasm) == record.upload

\* The upload that the record names, if it is of the same build.
KnownUpload(wasm) == IF record.wasm = wasm THEN record.upload ELSE None

\* sed: what a file says after an edit.
Edited(file, old, new) == IF file \in Matched THEN new ELSE old

\* The record is read before any file is edited.
RecordEnv ==
    /\ AtStep("recording")
    /\ env' = Edited("env", env, script.contract)
    /\ script' = [script EXCEPT !.step = "readme", !.known = KnownUpload(script.wasm)]
    /\ UNCHANGED <<chain, client, readme, record>>

\* The upload that the records should name, and the row that says so: it is
\* left alone when a recorded upload is known.
EffectiveUpload == IF script.upload # None THEN script.upload ELSE script.known
Row(old) == IF script.upload = None /\ script.known # None THEN old ELSE script.upload

RecordReadme ==
    /\ \/ /\ AtStep("readme") /\ Goto("readme_upload")
          /\ readme' = [readme EXCEPT !.contract = Edited("readme", @, script.contract)]
       \/ /\ AtStep("readme_upload") /\ Goto("contract")
          /\ readme' = [readme EXCEPT !.upload = Edited("readme", @, Row(@))]
    /\ UNCHANGED <<chain, client, env, record>>

\* The rows of the record are replaced one after the other, the hash of the
\* build before the upload.
RecordDeployment ==
    /\ \/ AtStep("contract") /\ record' = [record EXCEPT !.contract = script.contract] /\ Goto("wasm")
       \/ AtStep("wasm") /\ record' = [record EXCEPT !.wasm = script.wasm] /\ Goto("upload")
       \/ AtStep("upload") /\ record' = [record EXCEPT !.upload = Row(@)] /\ Goto("checking")
    /\ UNCHANGED <<chain, client, env, readme>>

\* The greps at the end: every record has its line, with what it should say.
Recorded ==
    /\ Matched = {"env", "readme"} /\ env = script.contract
    /\ readme.contract = script.contract /\ record.contract = script.contract
    /\ record.wasm = script.wasm
    /\ readme.upload = EffectiveUpload /\ record.upload = EffectiveUpload

Finish ==
    /\ AtStep("checking") /\ Recorded
    /\ Goto("done")
    /\ UNCHANGED <<chain, files>>

\* A command fails or the run is interrupted.
Dies ==
    /\ script # None /\ script.step # "done"
    /\ script' = None
    /\ UNCHANGED <<chain, files>>

-----------------------------------------------------------------------------
\* One deployment was recorded before.
DeployInit ==
    /\ sent = 2
    /\ \E w \in Wasm :
          /\ uploaded = [v \in Wasm |-> IF v = w THEN 1 ELSE None]
          /\ deployed = [c \in 1..MaxDeploys |-> IF c = 2 THEN w ELSE None]
          /\ record = [contract |-> 2, wasm |-> w, upload |-> 1]
    /\ client = 2 /\ env = 2
    /\ readme = [contract |-> 2, upload |-> 1]
    /\ script = None

DeployNext ==
    \/ \E w \in Wasm : Start(w)
    \/ Upload \/ Create \/ Verify \/ Generate
    \/ RecordEnv \/ RecordReadme \/ RecordDeployment \/ Finish \/ Dies

DeploySpec == DeployInit /\ [][DeployNext]_deployVars

\* When a run ends well, the client, the environment, the README and the record
\* all name the contract it deployed and the build which that contract runs, and
\* an upload they name is the one of that build, whatever runs died before.
RecordsAgree ==
    AtStep("done") =>
        /\ {client, env, readme.contract, record.contract} = {script.contract}
        /\ record.wasm = deployed[record.contract]
        /\ readme.upload = record.upload
        /\ record.upload # None => record.upload = uploaded[record.wasm]

\* What the script asserts of its own edits (deploy-testnet.sh, the greps under
\* die "failed to record ..."): a run that got through them all has recorded the
\* deployment.  .env.example and README.md have other lines by now than the
\* patterns ask for.
EditsRecord == AtStep("checking") => Recorded
=============================================================================
