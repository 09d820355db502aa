---------------------------- MODULE DeployProofs ----------------------------
(***************************************************************************)
(* Whatever runs of the deployment script died before, and at whatever     *)
(* line, a run that ends well leaves records that agree.  The hazard is    *)
(* the upload: a run that dies between the hash of a build and the upload  *)
(* in docs/deployments/testnet.md leaves another build's upload beside the *)
(* hash, which the next run believes.  README.md then names another one or *)
(* none, and the script's last checks fail.                                *)
(***************************************************************************)
EXTENDS Deploy, TLAPS

Step == {"deploying", "verifying", "generating", "recording", "readme", "readme_upload",
         "contract", "wasm", "upload", "checking", "done"}
Transaction == Nat \cup {None}
Script == [step : Step, wasm : Wasm, contract : Transaction, upload : Transaction,
           known : Transaction]

DeployTypeOK ==
    /\ sent \in Nat
    /\ uploaded \in [Wasm -> Transaction]
    /\ deployed \in [1..MaxDeploys -> Wasm \cup {None}]
    /\ record \in [contract : Transaction, wasm : Wasm, upload : Transaction]
    /\ readme \in [contract : Transaction, upload : Transaction]
    /\ script \in Script \cup {None}

-----------------------------------------------------------------------------
(* The invariant *)

During(steps) == script # None /\ script.step \in steps

Editing == {"readme", "readme_upload", "contract", "wasm", "upload", "checking"}

\* The run's own upload is that of its build, and in the record only at the end.
OwnUpload ==
    /\ record.upload # None => record.upload <= sent
    /\ script # None /\ script.upload # None =>
          /\ script.upload <= sent /\ script.upload = uploaded[script.wasm]
          /\ During(Step \ {"checking", "done"}) => record.upload # script.upload

\* The run's contract runs its build, and the client is the contract's.
OwnContract ==
    /\ During(Step \ {"deploying"}) =>
          script.contract \in 1..MaxDeploys /\ deployed[script.contract] = script.wasm
    /\ During({"recording", "done"} \cup Editing) => client = script.contract

\* A known upload stays in the record when the run has none of its own; README.md
\* is written before the record.
Order ==
    /\ During(Editing) /\ script.upload = None /\ script.known # None =>
          record.wasm = script.wasm /\ record.upload = script.known
    /\ /\ During({"contract", "wasm", "upload", "checking"}) /\ "readme" \in Matched
       /\ script.upload # None \/ script.known = None
       => readme.upload = script.upload
    /\ During({"upload", "checking"}) => record.wasm = script.wasm

\* An upload that README.md and the record both name is the one of the build
\* recorded, at any time: a wrong one is never in both.
Witnessed ==
    "readme" \in Matched /\ readme.upload = record.upload /\ record.upload # None =>
        record.upload = uploaded[record.wasm]

DeployInv == DeployTypeOK /\ OwnUpload /\ OwnContract /\ Order /\ Witnessed /\ RecordsAgree

-----------------------------------------------------------------------------
(* Its proof *)

LEMMA InitInv == DeployInit => DeployInv
  BY DeployAssumption, SMTT(60)
  DEF DeployInit, DeployInv, DeployTypeOK, OwnUpload, OwnContract, Order, Witnessed,
      RecordsAgree, During, Transaction, AtStep

LEMMA NextInv == DeployInv /\ [DeployNext]_deployVars => DeployInv'
<1> SUFFICES ASSUME DeployInv, [DeployNext]_deployVars PROVE DeployInv'
  OBVIOUS
<1> USE DeployAssumption
<1> USE DEF DeployInv, DeployTypeOK, OwnUpload, OwnContract, Order, Witnessed, RecordsAgree,
            During, Transaction, AtStep, Script, Step, Editing, chain, files
<1>1. ASSUME NEW w \in Wasm, Start(w) PROVE DeployInv'
  BY <1>1, SMTT(30) DEF Start
<1>2. CASE Upload
  BY <1>2, SMTT(30) DEF Upload
<1>3. CASE Create
  <2> USE <1>3 DEF Create
  <2>1. sent + 1 \in 1..MaxDeploys /\ sent + 1 \in Transaction /\ script \in Script
    OBVIOUS
  <2>2. script' = [script EXCEPT !.contract = sent + 1, !.step = "verifying"]
    OBVIOUS
  <2>3. deployed'[sent + 1] = script.wasm
    BY <2>1
  <2>4. DeployTypeOK'
    <3>1. script' \in Script
      BY <2>1, <2>2
    <3>2. deployed' \in [1..MaxDeploys -> Wasm \cup {None}]
      BY <2>1
    <3>3. sent' \in Nat /\ UNCHANGED <<uploaded, record, readme>>
      OBVIOUS
    <3> QED BY <3>1, <3>2, <3>3
  <2>5. OwnUpload'
    BY <2>1, <2>2
  <2>6. OwnContract'
    BY <2>1, <2>2, <2>3
  <2>7. Order' /\ Witnessed' /\ RecordsAgree'
    BY <2>1, <2>2
  <2> QED BY <2>4, <2>5, <2>6, <2>7
<1>4. CASE Verify
  <2>1. /\ script # None /\ script \in Script /\ script' = [script EXCEPT !.step = "generating"]
        /\ UNCHANGED <<sent, uploaded, deployed, client, readme, record>>
    BY <1>4 DEF Verify, Goto
  <2>2. script' \in Script
    BY <2>1
  <2>3. /\ script'.step = "generating" /\ script'.wasm = script.wasm /\ script'.contract = script.contract
        /\ script'.upload = script.upload /\ script'.known = script.known
    BY <2>1
  <2>4. DeployTypeOK'
    BY <2>1, <2>2, <1>4 DEF Verify
  <2>5. OwnUpload'
    BY <1>4, <2>1, <2>2, <2>3 DEF Verify
  <2>6. OwnContract'
    BY <1>4, <2>1, <2>2, <2>3 DEF Verify
  <2>7. Order' /\ Witnessed' /\ RecordsAgree'
    BY <1>4, <2>1, <2>2, <2>3 DEF Verify
  <2> QED BY <2>4, <2>5, <2>6, <2>7
<1>5. CASE Generate
  <2>1. /\ script # None /\ script \in Script /\ script' = [script EXCEPT !.step = "recording"]
        /\ UNCHANGED <<sent, uploaded, deployed, readme, record>>
        /\ client' = script.contract
    BY <1>5 DEF Generate, Goto
  <2>2. script' \in Script
    BY <2>1
  <2>3. /\ script'.step = "recording" /\ script'.wasm = script.wasm /\ script'.contract = script.contract
        /\ script'.upload = script.upload /\ script'.known = script.known
    BY <2>1
  <2>4. DeployTypeOK'
    BY <1>5, <2>1, <2>2 DEF Generate
  <2>5. OwnUpload'
    BY <1>5, <2>1, <2>2, <2>3 DEF Generate
  <2>6. OwnContract'
    BY <1>5, <2>1, <2>2, <2>3 DEF Generate
  <2>7. Order' /\ Witnessed' /\ RecordsAgree'
    BY <1>5, <2>1, <2>2, <2>3 DEF Generate
  <2> QED BY <2>4, <2>5, <2>6, <2>7
<1>6. CASE RecordEnv
  <2> USE <1>6 DEF RecordEnv, KnownUpload
  <2>1. script \in Script
    OBVIOUS
  <2>2. script' = [script EXCEPT !.step = "readme", !.known = KnownUpload(script.wasm)]
    OBVIOUS
  <2>3. UNCHANGED <<sent, uploaded, deployed, client, readme, record>>
    OBVIOUS
  <2>4. DeployTypeOK'
    <3>1. KnownUpload(script.wasm) \in Transaction
      BY <2>1
    <3>2. script' \in Script
      BY <2>1, <2>2, <3>1
    <3> QED BY <2>3, <3>2
  <2>5. OwnUpload'
    BY <2>1, <2>2, <2>3
  <2>6. OwnContract'
    BY <2>1, <2>2, <2>3
  <2>7. Order' /\ Witnessed' /\ RecordsAgree'
    BY <2>1, <2>2, <2>3
  <2> QED BY <2>4, <2>5, <2>6, <2>7
<1>7. CASE RecordReadme
  BY <1>7, SMTT(30) DEF RecordReadme, Goto, Edited, Row
<1>8. CASE RecordDeployment
  <2>1. script \in Script /\ UNCHANGED <<sent, uploaded, deployed, client, readme>>
    BY <1>8 DEF RecordDeployment
  <2>2. CASE /\ AtStep("contract") /\ script' = [script EXCEPT !.step = "wasm"]
             /\ record' = [record EXCEPT !.contract = script.contract]
    <3>1. /\ script'.wasm = script.wasm /\ script'.contract = script.contract
          /\ script'.upload = script.upload /\ script'.known = script.known
          /\ script.step = "contract" /\ script'.step = "wasm"
          /\ record'.wasm = record.wasm /\ record'.upload = record.upload
      BY <2>1, <2>2
    <3>2. DeployTypeOK'
      BY <2>1, <2>2
    <3>3. OwnUpload'
      BY <2>1, <2>2, <3>1
    <3>4. OwnContract'
      BY <2>1, <2>2, <3>1
    <3>5. Order' /\ Witnessed' /\ RecordsAgree'
      BY <2>1, <2>2, <3>1
    <3> QED BY <3>2, <3>3, <3>4, <3>5
  <2>3. CASE /\ AtStep("wasm") /\ script' = [script EXCEPT !.step = "upload"]
             /\ record' = [record EXCEPT !.wasm = script.wasm]
    <3>1. /\ script'.wasm = script.wasm /\ script'.contract = script.contract
          /\ script'.upload = script.upload /\ script'.known = script.known
          /\ script.step = "wasm" /\ script'.step = "upload"
          /\ record'.wasm = script.wasm /\ record'.upload = record.upload
      BY <2>1, <2>3
    <3>2. DeployTypeOK'
      BY <2>1, <2>3
    <3>3. OwnUpload'
      BY <2>1, <2>3, <3>1
    <3>4. OwnContract'
      BY <2>1, <2>3, <3>1
    <3>5. Order'
      BY <2>1, <2>3, <3>1
    <3>6. Witnessed' /\ RecordsAgree'
      BY <2>1, <2>3, <3>1
    <3> QED BY <3>2, <3>3, <3>4, <3>5, <3>6
  <2>4. CASE /\ AtStep("upload") /\ script' = [script EXCEPT !.step = "checking"]
             /\ record' = [record EXCEPT !.upload = Row(@)]
    <3>1. DeployTypeOK'
      BY <2>1, <2>4 DEF Row
    <3>2. OwnUpload'
      BY <2>1, <2>4 DEF Row
    <3>3. OwnContract' /\ RecordsAgree'
      BY <2>1, <2>4
    <3>4. Order'
      <4>1. script'.wasm = record'.wasm /\ script'.step = "checking"
        BY <2>1, <2>4
      <4>2. /\ script'.upload = script.upload /\ script'.known = script.known
            /\ UNCHANGED readme
        BY <2>1, <2>4
      <4>3. ASSUME script.upload = None, script.known # None
            PROVE  record'.upload = script.known
        BY <2>4, <4>3 DEF Row
      <4> QED BY <2>4, <4>1, <4>2, <4>3
    <3>5. Witnessed'
      <4>1. script.wasm = record.wasm /\ UNCHANGED <<readme, uploaded>>
        BY <2>1, <2>4
      <4>2. record'.wasm = record.wasm /\ record'.upload = Row(record.upload)
        BY <2>4
      <4>3. CASE script.upload # None
        BY <2>4, <4>1, <4>2, <4>3 DEF Row
      <4>4. CASE script.upload = None
        <5>1. record'.upload \in {None, record.upload}
          BY <4>2, <4>4 DEF Row
        <5> QED BY <4>1, <4>2, <5>1
      <4> QED BY <4>3, <4>4
    <3> QED BY <3>1, <3>2, <3>3, <3>4, <3>5
  <2> QED BY <1>8, <2>2, <2>3, <2>4 DEF RecordDeployment, Goto
<1>9. CASE Finish
  BY <1>9, SMTT(30) DEF Finish, Recorded, Goto
<1>10. CASE Dies
  BY <1>10, SMTT(30) DEF Dies
<1>11. CASE UNCHANGED deployVars
  <2>1. UNCHANGED <<sent, uploaded, deployed, client, env, readme, record, script>>
    BY <1>11 DEF deployVars
  <2>2. DeployTypeOK' /\ OwnUpload'
    BY <2>1
  <2>3. OwnContract'
    BY <2>1
  <2>4. Order' /\ Witnessed' /\ RecordsAgree'
    BY <2>1
  <2> QED BY <2>2, <2>3, <2>4
<1> QED BY <1>1, <1>2, <1>3, <1>4, <1>5, <1>6, <1>7, <1>8, <1>9, <1>10, <1>11 DEF DeployNext

\* However many builds and transactions there are, a run of the script that ends
\* well leaves the client and the records agreeing (scripts/deploy-testnet.sh).
THEOREM RecordsAgreeAtTheEnd == DeploySpec => []RecordsAgree
<1>1. DeployInv => RecordsAgree
  BY DEF DeployInv
<1> QED BY <1>1, InitInv, NextInv, PTL DEF DeploySpec
=============================================================================
