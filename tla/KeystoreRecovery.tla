-------------------------- MODULE KeystoreRecovery --------------------------
(***************************************************************************)
(* EmailVaultController on top of the keystore: a random secret is added   *)
(* to the keystore and uploaded to the email vault, and a user who forgot  *)
(* the password fetches it, unlocks with it and sets another password.     *)
(*                                                                         *)
(* Both flows call methods of the keystore one after another.  withStatus  *)
(* swallows what goes wrong in them and refuses the ones that come at a    *)
(* bad time, and the flow goes on either way.                              *)
(***************************************************************************)
EXTENDS Keystore

\* The values the email vault draws.
Randoms == Values \ Passwords

VARIABLES
    flow,    \* uploadKeyStoreSecret or recoverKeyStore: only one runs
    remote,  \* the secret the email vault holds for this keystore, or NoValue
    drawn    \* the random values that were used

vaultVars == <<flow, remote, drawn>>
allVars == <<vars, vaultVars>>

\* "confirming" awaits the user's click in an email, "adding" addSecret and
\* "sending" the relayer; "retrieving" awaits the relayer, and "unlocking",
\* "removing" and "resetting" the methods of the keystore, which have
\* returned at "unlocked" and "removed".
FlowStages == {"idle", "confirming", "adding", "sending", "retrieving",
               "unlocking", "unlocked", "removing", "removed", "resetting"}
Flow == [stage: FlowStages, value: Values \cup {NoValue}]
NoFlow == [stage |-> "idle", value |-> NoValue]

RecoveryTypeOK ==
    /\ TypeOK
    /\ flow \in Flow
    /\ remote \in Randoms \cup {NoValue}
    /\ drawn \subseteq Randoms

\* The flow calls a method, or finds it refused and goes on at once.
Calls(m, start, during, after) ==
    \/ start /\ flow' = [flow EXCEPT !.stage = during]
    \/ ~MayStart(m) /\ flow' = [flow EXCEPT !.stage = after] /\ UNCHANGED calls

OnlyFlow == UNCHANGED <<memory, queue, disk, made, disturbed, remote>>

-----------------------------------------------------------------------------
(* uploadKeyStoreSecret *)

\* The user asks for it on a screen of the unlocked wallet.
StartUpload ==
    /\ flow.stage = "idle"
    /\ mainKey # 0
    /\ flow' = [NoFlow EXCEPT !.stage = "confirming"]
    /\ OnlyFlow
    /\ UNCHANGED <<calls, drawn>>

\* The magic link was opened: a new secret is drawn and added.
Confirmed ==
    /\ flow.stage = "confirming"
    /\ \E v \in Randoms \ drawn :
           /\ drawn' = drawn \cup {v}
           /\ \/ /\ StartAddSecret("recovery", v, FALSE, "vault")
                 /\ flow' = [stage |-> "adding", value |-> v]
              \/ /\ ~MayStart("addSecret")
                 /\ flow' = [stage |-> "sending", value |-> v]
                 /\ UNCHANGED calls
    /\ OnlyFlow

\* addKeyStoreSecret, after getKeyStoreUid.
Uploaded ==
    /\ flow.stage = "sending"
    /\ uid # 0
    /\ remote' = flow.value
    /\ flow' = NoFlow
    /\ UNCHANGED <<memory, calls, queue, disk, made, disturbed, drawn>>

\* The link was not opened, there is no uid, or the relayer failed.
UploadFailed ==
    /\ flow.stage \in {"confirming", "sending"}
    /\ flow' = NoFlow
    /\ OnlyFlow
    /\ UNCHANGED <<calls, drawn>>

-----------------------------------------------------------------------------
(* recoverKeyStore *)

StartRecover(password) ==
    /\ flow.stage = "idle"
    /\ uid # 0
    /\ remote # NoValue
    /\ flow' = [stage |-> "retrieving", value |-> password]
    /\ OnlyFlow
    /\ UNCHANGED <<calls, drawn>>

RetrieveFailed ==
    /\ flow.stage = "retrieving"
    /\ flow' = NoFlow
    /\ OnlyFlow
    /\ UNCHANGED <<calls, drawn>>

\* The secret is there and the keystore is unlocked with it.  A secret that the
\* keystore does not know counts as a disturbance.
KnowsRemote == \E s \in SecretsOf("recovery") : s.value = remote

Retrieved ==
    /\ flow.stage = "retrieving"
    /\ Calls("unlockWithSecret", StartUnlock("recovery", remote, "vault"),
             "unlocking", "unlocked")
    /\ disturbed' = (disturbed \/ ~KnowsRemote)
    /\ UNCHANGED <<memory, queue, disk, made, remote, drawn>>

RemovePassword ==
    /\ flow.stage = "unlocked"
    /\ Calls("removeSecret", StartRemoveSecret("password", "vault"), "removing", "removed")
    /\ OnlyFlow
    /\ UNCHANGED drawn

SetPassword ==
    /\ flow.stage = "removed"
    /\ Calls("addSecret", StartAddSecret("password", flow.value, FALSE, "vault"),
             "resetting", "idle")
    /\ OnlyFlow
    /\ UNCHANGED drawn

\* A method of the keystore returned to the flow or to the user.
Resume ==
    CASE flow.stage = "adding"    -> [flow EXCEPT !.stage = "sending"]
      [] flow.stage = "unlocking" -> [flow EXCEPT !.stage = "unlocked"]
      [] flow.stage = "removing"  -> [flow EXCEPT !.stage = "removed"]
      [] OTHER                    -> NoFlow

ReturnTo(m) ==
    /\ Return(m)
    /\ flow' = IF calls[m].owner = "vault" THEN Resume ELSE flow
    /\ UNCHANGED <<remote, drawn>>

RestartAll ==
    /\ Restart
    /\ flow' = NoFlow
    /\ UNCHANGED <<remote, drawn>>

-----------------------------------------------------------------------------
RecoveryInit ==
    /\ Init
    /\ flow = NoFlow
    /\ remote = NoValue
    /\ drawn = {}

VaultStep ==
    \/ StartUpload \/ Confirmed \/ Uploaded \/ UploadFailed
    \/ \E v \in Passwords : StartRecover(v)
    \/ RetrieveFailed \/ Retrieved \/ RemovePassword \/ SetPassword

RecoveryNext ==
    \/ (UserStep \/ CallStep) /\ UNCHANGED vaultVars
    \/ BeginRemove /\ UNCHANGED vaultVars
    \/ VaultStep
    \/ \E m \in Methods : ReturnTo(m)
    \/ RestartAll

RecoverySpec == RecoveryInit /\ [][RecoveryNext]_allVars

=============================================================================
