--------------------------- MODULE SepoliaWorkflow --------------------------
(***************************************************************************)
(* The public workflow: scripts/run-sepolia-full-workflow.ts, the frozen   *)
(* recipe of its 57 calls (scripts/lib/sepolia-workflow-recipe.ts), and    *)
(* what it needs of the chain it talks to.                                 *)
(*                                                                         *)
(* The runner walks through "ensure" functions; each reads the record its  *)
(* calls write and makes the calls whose record is missing.  A call is     *)
(* sent, written to the checkpoint as pending, awaited and written again   *)
(* as confirmed.  The process may end anywhere, also inside the write, and *)
(* time may pass until every deadline granted so far is over.  The chain   *)
(* is external: the set of calls that took effect, and the transactions it *)
(* has yet to mine, those of one signer in order.                          *)
(***************************************************************************)
EXTENDS Integers, Sequences, FiniteSets, SequencesExt

CONSTANT InterruptionBound   \* crashes and long delays explored

VARIABLES
    missing,      \* what the deployment or the environment lacks
    chain,        \* calls that took effect
    txs,          \* transactions sent, in order
    checkpoint,   \* the file: "absent", "torn" or "written" with its records
    runner,       \* the process: phase, position in the walk, transactions
    stop,         \* why the last process ended
    expired,      \* calls whose deadlines are over
    unrecorded,   \* transactions no checkpoint ever held
    crashes, delays

workflowVars == <<missing, chain, txs, checkpoint, runner, stop, expired, unrecorded,
                  crashes, delays>>

-----------------------------------------------------------------------------
(* The frozen recipe. *)

Free(function, about, signer) ==
    [call |-> <<function, about>>, signer |-> signer, value |-> "zero"]

Paid(function, about, signer) ==
    [call |-> <<function, about>>, signer |-> signer, value |-> "purchase-amount"]

recipeOfIdentities == <<
    Free("setOrganizationStatus", "issuer", "governance"),
    Free("setCredential", "issuer", "governance"),
    Free("setOrganizationStatus", "controller", "governance"),
    Free("setCredential", "controller", "governance"),
    Free("setOrganizationStatus", "verifier", "governance"),
    Free("setCredential", "verifier", "governance"),
    Free("setOrganizationStatus", "seller", "governance"),
    Free("setCredential", "seller", "governance"),
    Free("setOrganizationStatus", "buyer", "governance"),
    Free("setCredential", "buyer", "governance"),
    Free("setOrganizationStatus", "replica_attester", "governance"),
    Free("setCredential", "replica_attester", "governance"),
    Free("setOrganizationStatus", "logistics_provider", "governance"),
    Free("setCredential", "logistics_provider", "governance"),
    Free("setOrganizationStatus", "audit_anchor", "governance"),
    Free("setCredential", "audit_anchor", "governance") >>

recipeOfPermissions == <<
    Free("setRegistrar", "registrar", "governance"),
    Free("setRepositoryApproval", "replica-repository", "governance"),
    Free("setCapabilityGrant", "issue", "governance"),
    Free("setCapabilityGrant", "certify", "governance"),
    Free("setCapabilityGrant", "list", "governance"),
    Free("setCapabilityGrant", "offer", "governance"),
    Free("setCapabilityGrant", "logistics", "governance"),
    Free("setCapabilityGrant", "anchor", "governance"),
    Free("proposeInitialOwnership", "battery", "registrar"),
    Free("acceptInitialOwnership", "battery", "seller") >>

recipeOfEvidence == <<
    Free("commitAttestedProtectedBundle", "diagnostic-evidence", "controller"),
    Free("submitReplicaReceipt", "diagnostic-evidence", "replica_attester"),
    Free("promoteToDecisionCritical", "diagnostic-evidence", "controller"),
    Free("activateEvidence", "claim", "issuer"),
    Free("commitAttestedProtectedBundle", "verification-assertion", "controller"),
    Free("submitReplicaReceipt", "verification-assertion", "replica_attester"),
    Free("promoteToDecisionCritical", "verification-assertion", "controller"),
    Free("createVerificationAssertion", "assertion", "verifier") >>

recipeOfTrade == <<
    Free("commitAttestedProtectedBundle", "listing", "seller"),
    Free("submitReplicaReceipt", "listing", "replica_attester"),
    Free("promoteToDecisionCritical", "listing", "seller"),
    Free("createListing", "listing", "seller"),
    Free("submitOffer", "offer", "buyer"),
    Free("commitAttestedProtectedBundle", "agreement", "seller"),
    Free("submitReplicaReceipt", "agreement", "replica_attester"),
    Free("promoteToDecisionCritical", "agreement", "seller"),
    Free("selectOfferAndCreateAgreement", "agreement", "seller"),
    Free("confirmAgreement", "agreement", "buyer"),
    Paid("fundAgreement", "agreement", "buyer") >>

recipeOfCompletion == <<
    Free("commitAttestedProtectedBundle", "dispatch", "logistics_provider"),
    Free("submitReplicaReceipt", "dispatch", "replica_attester"),
    Free("promoteToDecisionCritical", "dispatch", "logistics_provider"),
    Free("commitAttestedProtectedBundle", "delivery", "logistics_provider"),
    Free("submitReplicaReceipt", "delivery", "replica_attester"),
    Free("promoteToDecisionCritical", "delivery", "logistics_provider"),
    Free("recordDispatch", "agreement", "logistics_provider"),
    Free("recordDelivery", "agreement", "logistics_provider"),
    Free("acceptDelivery", "agreement", "buyer"),
    Free("settleAccepted", "agreement", "governance"),
    Free("withdrawCredits", "seller", "seller"),
    Free("anchorBatch", "audit-batch", "audit_anchor") >>

sepoliaWorkflowRecipe ==
    recipeOfIdentities \o recipeOfPermissions \o recipeOfEvidence \o recipeOfTrade
        \o recipeOfCompletion

-----------------------------------------------------------------------------
(* The walk: the calls each ensure function makes, in order, when none of  *)
(* their records exists.                                                   *)

identities == <<"issuer", "controller", "verifier", "seller", "buyer",
                "replica_attester", "logistics_provider", "audit_anchor">>

ensureOrganization(role) == <<Free("setOrganizationStatus", role, "governance")>>

ensureCredential(role) == <<Free("setCredential", role, "governance")>>

ensureRegistrar == <<Free("setRegistrar", "registrar", "governance")>>

ensureReplicaRepository ==
    <<Free("setRepositoryApproval", "replica-repository", "governance")>>

ensureCapability(capability) == <<Free("setCapabilityGrant", capability, "governance")>>

ensureInitialOwnership ==
    <<Free("proposeInitialOwnership", "battery", "registrar"),
      Free("acceptInitialOwnership", "battery", "seller")>>

ensureBundle(label, controller) ==
    <<Free("commitAttestedProtectedBundle", label, controller),
      Free("submitReplicaReceipt", label, "replica_attester"),
      Free("promoteToDecisionCritical", label, controller)>>

ensureEvidenceActivation == <<Free("activateEvidence", "claim", "issuer")>>

ensureVerificationAssertion == <<Free("createVerificationAssertion", "assertion", "verifier")>>

ensureListing == <<Free("createListing", "listing", "seller")>>

ensureOffer == <<Free("submitOffer", "offer", "buyer")>>

ensureAgreement == <<Free("selectOfferAndCreateAgreement", "agreement", "seller")>>

ensureAgreementFunding ==
    <<Free("confirmAgreement", "agreement", "buyer"), Paid("fundAgreement", "agreement", "buyer")>>

ensureLogisticsAndSettlement ==
    <<Free("recordDispatch", "agreement", "logistics_provider"),
      Free("recordDelivery", "agreement", "logistics_provider"),
      Free("acceptDelivery", "agreement", "buyer"),
      Free("settleAccepted", "agreement", "governance"),
      Free("withdrawCredits", "seller", "seller")>>

ensureAuditAnchor == <<Free("anchorBatch", "audit-batch", "audit_anchor")>>

Walk ==
    FlattenSeq([i \in DOMAIN identities |->
                   ensureOrganization(identities[i]) \o ensureCredential(identities[i])])
    \o ensureRegistrar \o ensureReplicaRepository
    \o ensureCapability("issue") \o ensureCapability("certify") \o ensureCapability("list")
    \o ensureCapability("offer") \o ensureCapability("logistics") \o ensureCapability("anchor")
    \o ensureInitialOwnership
    \o ensureBundle("diagnostic-evidence", "controller") \o ensureEvidenceActivation
    \o ensureBundle("verification-assertion", "controller") \o ensureVerificationAssertion
    \o ensureBundle("listing", "seller") \o ensureListing \o ensureOffer
    \o ensureBundle("agreement", "seller") \o ensureAgreement \o ensureAgreementFunding
    \o ensureBundle("dispatch", "logistics_provider") \o ensureBundle("delivery", "logistics_provider")
    \o ensureLogisticsAndSettlement \o ensureAuditAnchor

(* A run that is never interrupted makes the frozen calls. *)
ASSUME WalkIsTheRecipe == Walk = sepoliaWorkflowRecipe

(* The accounts the environment supplies, with the value each may send.    *)
sepoliaWorkflowRoles ==
    [role \in {"deployer", "governance", "issuer", "controller", "registrar", "verifier",
               "seller", "buyer", "replica_attester", "logistics_provider", "audit_anchor"} |->
        IF role = "buyer" THEN "purchase-amount" ELSE "zero"]

(* Every call of the recipe has an account, and every payment a budget;    *)
(* the deployer, who has no budget for gas, signs none.                    *)
ASSUME RolesCoverTheRecipe ==
    \A i \in DOMAIN sepoliaWorkflowRecipe :
        /\ sepoliaWorkflowRecipe[i].signer \in DOMAIN sepoliaWorkflowRoles \ {"deployer"}
        /\ sepoliaWorkflowRecipe[i].value \in
              {"zero", sepoliaWorkflowRoles[sepoliaWorkflowRecipe[i].signer]}

-----------------------------------------------------------------------------
(* The chain (external). *)

Settled == <<"settleAccepted", "agreement">> \in chain

SellerCredit == Settled /\ <<"withdrawCredits", "seller">> \notin chain

(* Administrative calls may be repeated; any other is refused once made. *)
Repeatable == {"setOrganizationStatus", "setCredential", "setRegistrar",
               "setRepositoryApproval", "setCapabilityGrant"}

(* Calls whose arguments hold a deadline. *)
Dated == {"proposeInitialOwnership", "commitAttestedProtectedBundle", "createListing",
          "submitOffer", "selectOfferAndCreateAgreement"}

(* The calls whose deadline a call must meet. *)
DeadlineOf(call) ==
    CASE call[1] = "acceptInitialOwnership" -> {<<"proposeInitialOwnership", "battery">>}
      [] call[1] = "submitOffer" -> {<<"createListing", "listing">>}
      [] call[1] = "selectOfferAndCreateAgreement" ->
            {<<"createListing", "listing">>, <<"submitOffer", "offer">>}
      [] call[1] \in {"confirmAgreement", "fundAgreement", "recordDispatch", "recordDelivery",
                      "acceptDelivery"} ->
            {<<"selectOfferAndCreateAgreement", "agreement">>}
      [] OTHER -> {}

Reverts(call) ==
    \/ call \in chain /\ call[1] \notin Repeatable
    \/ DeadlineOf(call) \cap expired # {}

InPool(n) == txs[n].status = "pool"

mine(n) ==
    /\ InPool(n)
    /\ \A m \in 1 .. n - 1 : InPool(m) => txs[m].signer # txs[n].signer
    /\ LET fails == Reverts(txs[n].call) \/ txs[n].late
       IN  /\ txs' = [txs EXCEPT ![n].status = IF fails THEN "reverted" ELSE "mined",
                                   ![n].late = FALSE]
           /\ chain' = IF fails THEN chain ELSE chain \cup {txs[n].call}
    /\ UNCHANGED <<missing, checkpoint, runner, stop, expired, unrecorded, crashes, delays>>

(* Longer than the longest deadline. *)
delay ==
    /\ crashes + delays < InterruptionBound
    /\ delays' = delays + 1
    /\ expired' = chain \cap UNION {DeadlineOf(Walk[i].call) : i \in DOMAIN Walk}
    /\ txs' = [n \in DOMAIN txs |-> [txs[n] EXCEPT !.late = InPool(n) /\ txs[n].call[1] \in Dated]]
    /\ UNCHANGED <<missing, chain, checkpoint, runner, stop, unrecorded, crashes>>

-----------------------------------------------------------------------------
(* The runner. *)

Down == [phase |-> "down", next |-> 1, transactions |-> <<>>]

Halted(reason) == runner' = Down /\ stop' = reason

(* What the deployment must be like before anything is sent.               *)
connectExistingDeployment == {"deployment-keys", "deployed-code"}

verifyDeploymentConfiguration == {"closed-bootstrap", "marketplace-lock", "active-modules"}

Preconditions ==
    {"network", "confirmation", "signers", "distinct-accounts"}
    \cup connectExistingDeployment \cup verifyDeploymentConfiguration

WorkflowInit ==
    /\ missing \in {{}} \cup {{p} : p \in Preconditions}
    /\ chain = {} /\ txs = <<>>
    /\ checkpoint = [file |-> "absent", records |-> <<>>]
    /\ runner = Down /\ stop = "none"
    /\ expired = {} /\ unrecorded = {}
    /\ crashes = 0 /\ delays = 0

Written(records) == [file |-> "written", records |-> records]

(* Environment, accounts and deployment are checked before the checkpoint  *)
(* is read; a file that is not there is an empty one.                      *)
loadCheckpoint ==
    /\ runner.phase = "down"
    /\ IF missing # {} THEN Halted("precondition")
       ELSE IF checkpoint.file = "torn" THEN Halted("unreadable")
       ELSE /\ runner' = [Down EXCEPT !.phase = "finalizing", !.transactions = checkpoint.records]
            /\ UNCHANGED stop
    /\ UNCHANGED <<missing, chain, txs, checkpoint, expired, unrecorded, crashes, delays>>

Mutant_Finalized(record) == record

Finalized(record) == [record EXCEPT !.status = "confirmed"]

(* Every pending record waits for its receipt; a reverted one ends the run *)
(* before the file is rewritten.                                           *)
finalizePendingTransactions ==
    LET pending == {i \in DOMAIN runner.transactions :
                       runner.transactions[i].status = "pending"}
        Status(i) == txs[runner.transactions[i].tx].status
        completed == [i \in DOMAIN runner.transactions |-> Finalized(runner.transactions[i])]
    IN  /\ runner.phase = "finalizing"
        /\ \A i \in pending : Status(i) # "pool"
        /\ IF \E i \in pending : Status(i) = "reverted"
           THEN Halted("reverted") /\ UNCHANGED checkpoint
           ELSE /\ checkpoint' = Written(completed)
                /\ runner' = [runner EXCEPT !.phase = "checking", !.transactions = completed]
                /\ UNCHANGED stop
        /\ UNCHANGED <<missing, chain, txs, expired, unrecorded, crashes, delays>>

assertRecordedWorkflowRecipe(records) ==
    \A i \in DOMAIN records :
        /\ i \in DOMAIN sepoliaWorkflowRecipe
        /\ records[i].call = sepoliaWorkflowRecipe[i].call
        /\ records[i].status = "confirmed"

(* State on the chain needs its checkpoint, and the seller starts without  *)
(* credit.                                                                 *)
checkStart ==
    /\ runner.phase = "checking"
    /\ IF ~assertRecordedWorkflowRecipe(runner.transactions) THEN Halted("recipe")
       ELSE IF runner.transactions = <<>> /\ <<"setOrganizationStatus", "issuer">> \in chain
       THEN Halted("no-checkpoint")
       ELSE IF SellerCredit THEN Halted("seller-credit")
       ELSE runner' = [runner EXCEPT !.phase = "walking"] /\ UNCHANGED stop
    /\ UNCHANGED <<missing, chain, txs, checkpoint, expired, unrecorded, crashes, delays>>

(* The first call from position i on whose record is missing. *)
FirstMissing(i) ==
    CHOOSE j \in i .. Len(Walk) + 1 :
        /\ \A k \in i .. j - 1 : Walk[k].call \in chain
        /\ j <= Len(Walk) => Walk[j].call \notin chain

OwnershipStep == CHOOSE i \in DOMAIN Walk : Walk[i].call[1] = "acceptInitialOwnership"

(* What recordTransaction checks before it sends a call. *)
IsNextOfRecipe(entry) ==
    LET position == Len(runner.transactions) + 1
    IN  /\ position \in DOMAIN sepoliaWorkflowRecipe
        /\ sepoliaWorkflowRecipe[position] = entry

RecordIsWhole ==
    /\ assertRecordedWorkflowRecipe(runner.transactions)
    /\ Len(runner.transactions) = Len(sepoliaWorkflowRecipe)

(* Settled and closed, the buyer the owner, evidence and assertion active, *)
(* credit withdrawn, the batch anchored, the origins bound.                *)
verifyFinalState ==
    /\ Settled /\ ~SellerCredit
    /\ {<<"activateEvidence", "claim">>, <<"createVerificationAssertion", "assertion">>,
        <<"createListing", "listing">>, <<"selectOfferAndCreateAgreement", "agreement">>,
        <<"anchorBatch", "audit-batch">>} \subseteq chain

(* The walk goes on to the first missing call, which must be the next of   *)
(* the recipe; ownership that has moved on is refused on the way.          *)
walk ==
    /\ runner.phase = "walking"
    /\ LET i == FirstMissing(runner.next)
       IN  IF runner.next <= OwnershipStep /\ Settled THEN Halted("owner")
           ELSE IF i > Len(Walk)
           THEN Halted(IF ~RecordIsWhole THEN "length"
                       ELSE IF ~verifyFinalState THEN "final-state" ELSE "finished")
           ELSE IF ~IsNextOfRecipe(Walk[i]) THEN Halted("recipe")
           ELSE runner' = [runner EXCEPT !.phase = "sending", !.next = i] /\ UNCHANGED stop
    /\ UNCHANGED <<missing, chain, txs, checkpoint, expired, unrecorded, crashes, delays>>

(* recordTransaction, up to the first write.  Sending estimates the call   *)
(* first, so one that would revert is not sent.                            *)
sendTransaction ==
    /\ runner.phase = "sending"
    /\ LET entry == Walk[runner.next]
           record == [call |-> entry.call, tx |-> Len(txs) + 1, status |-> "pending"]
       IN  IF Reverts(entry.call)
           THEN Halted("estimate") /\ UNCHANGED txs
           ELSE /\ txs' = Append(txs, [call |-> entry.call, signer |-> entry.signer,
                                       status |-> "pool", late |-> FALSE])
                /\ runner' = [runner EXCEPT !.phase = "sent",
                                            !.transactions = Append(@, record)]
                /\ UNCHANGED stop
    /\ UNCHANGED <<missing, chain, checkpoint, expired, unrecorded, crashes, delays>>

writePending ==
    /\ runner.phase = "sent"
    /\ checkpoint' = Written(runner.transactions)
    /\ runner' = [runner EXCEPT !.phase = "waiting"]
    /\ UNCHANGED <<missing, chain, txs, stop, expired, unrecorded, crashes, delays>>

(* The receipt: a reverted call leaves its record pending on disk. *)
completeRecord ==
    LET last == Len(runner.transactions)
        status == txs[runner.transactions[last].tx].status
    IN  /\ runner.phase = "waiting" /\ status # "pool"
        /\ IF status = "reverted"
           THEN Halted("reverted") /\ UNCHANGED checkpoint
           ELSE LET completed == [runner.transactions EXCEPT ![last] = Finalized(@)]
                IN  /\ runner' = [runner EXCEPT !.phase = "walking", !.next = @ + 1,
                                                !.transactions = completed]
                    /\ checkpoint' = Written(completed)
                    /\ UNCHANGED stop
        /\ UNCHANGED <<missing, chain, txs, expired, unrecorded, crashes, delays>>

(* The process ends.  A write that was under way may have emptied the file *)
(* it was replacing.                                                       *)
Writing ==
    \/ runner.phase = "sent"
    \/ /\ runner.phase \in {"finalizing", "waiting"}
       /\ \A i \in DOMAIN runner.transactions : ~InPool(runner.transactions[i].tx)

crash ==
    /\ runner.phase # "down" /\ crashes + delays < InterruptionBound
    /\ crashes' = crashes + 1
    /\ checkpoint' \in {checkpoint}
                        \cup (IF Writing THEN {[file |-> "torn", records |-> <<>>]} ELSE {})
    /\ unrecorded' = IF runner.phase = "sent"
                     THEN unrecorded \cup {Len(txs)} ELSE unrecorded
    /\ Halted("crashed")
    /\ UNCHANGED <<missing, chain, txs, expired, delays>>

WorkflowNext ==
    \/ \E n \in DOMAIN txs : mine(n)
    \/ delay \/ crash
    \/ loadCheckpoint \/ finalizePendingTransactions \/ checkStart \/ walk
    \/ sendTransaction \/ writePending \/ completeRecord

-----------------------------------------------------------------------------
(* recordTransaction, finalizePendingTransactions: a call is sent again    *)
(* only when the process ended between sending it and writing it down      *)
(* and it was not mined by the time the next process looked; whatever      *)
(* reached the file is waited for, never sent again.                       *)
CallsRepeatOnlyWhenUnrecorded ==
    \A m, n \in DOMAIN txs :
        m < n /\ txs[m].call = txs[n].call => m \in unrecorded

(* The runner's refusals: it calls the state of the chain or its own       *)
(* record wrong only when a transaction was sent that no checkpoint holds, *)
(* meets a revert only then or after a deadline, and refuses to go on for  *)
(* the seller's credit or the owner only once the agreement has settled    *)
(* (from then on an interrupted run is not continued, with its checkpoint  *)
(* or without); a run that walked to the end finds the final state it      *)
(* expects, and one that finishes recorded the frozen calls, each mined.   *)
(* No call is repeated but an unrecorded one.                              *)
StopsAreExplained ==
    /\ CallsRepeatOnlyWhenUnrecorded
    /\ stop \in {"no-checkpoint", "recipe", "length"} => unrecorded # {}
    /\ stop # "final-state"
    /\ stop \in {"estimate", "reverted"} => unrecorded # {} \/ delays > 0
    /\ stop \in {"seller-credit", "owner"} => Settled
    /\ stop = "finished" =>
          /\ [i \in DOMAIN checkpoint.records |-> checkpoint.records[i].call]
                = [i \in DOMAIN sepoliaWorkflowRecipe |-> sepoliaWorkflowRecipe[i].call]
          /\ \A i \in DOMAIN checkpoint.records :
                txs[checkpoint.records[i].tx].status = "mined"

=============================================================================
