--------------------------- MODULE AmbireAccount ---------------------------
(***************************************************************************)
(* The smart account on the chain: AmbireAccount with the factory that     *)
(* deploys it and DKIMRecoverySigValidator, by which an owner who lost a   *)
(* key sets another one.                                                   *)
(*                                                                         *)
(* A batch of calls runs contracts of others, which may call the account   *)
(* again before the batch ends, and every call may fail, or be made to     *)
(* fail by its caller: what it did is then undone, whoever catches it.     *)
(* What a batch calls is left open, so a signature stands for any batch    *)
(* that its key may have signed.  A batch may also come from the entry     *)
(* point of ERC-4337, once the account accepted the operation.             *)
(***************************************************************************)
EXTENDS Integers, Sequences, SequencesExt

CONSTANTS
    Keys,         \* that sign or call: the first privileges are those of Owners
    Owners,
    Entry,        \* the entry point of ERC-4337
    Rec,          \* the address that stands for the recovery
    Recoveries,   \* the values of SignatureMeta, see Recovery
    LockTime,     \* onlyOneSigTimelock
    WaitAdded, WaitRemoved, \* waitUntilAcceptAdded and waitUntilAcceptRemoved
    Settings,     \* bound: the pairs of address and privilege that batches set
    MaxDepth,     \* bound: calls of the account inside each other
    MaxOperations, \* bound: user operations accepted and not yet executed
    MaxNonce, MaxTimestamp \* bounds

Addrs == Keys \cup {Entry, Rec}
\* A validator's data is what Rec has; "other" is that of another recovery.
Privs == {"none", "on", "entry", "recovery", "other"}
Modes == {"Both", "OnlyDKIM", "OnlySecond"}
\* The key that signed the email is the one of the account, one that was added
\* to the validator, or missing.
Recovery == [mode: Modes, key: {"own", "added", "empty"}, addr: Addrs, priv: Privs]

ASSUME AccountAssumption ==
    /\ Owners \subseteq Keys
    /\ "caught" \notin Addrs
    /\ Recoveries \subseteq Recovery
    /\ Settings \subseteq Addrs \X Privs
    /\ LockTime \in Nat /\ MaxDepth \in Nat /\ MaxOperations \in Nat /\ MaxNonce \in Nat /\ MaxTimestamp \in Nat \ {0}

VARIABLES
    chain,  \* what a call changes and a failure restores
    frames, \* the calls of the account in progress, each with the chain before it
    timestamp,
    dkimKey \* dkimKeys of the added key: when it was added and removed

accountVars == <<chain, frames, timestamp, dkimKey>>

Chain ==
    [deployed: BOOLEAN, privileges: [Addrs -> Privs], nonce: 0..MaxNonce,
     \* User operations that the entry point may still execute in this transaction.
     accepted: 0..MaxOperations,
     \* (history) A batch of the entry point or a recovery left nobody in control.
     waived: BOOLEAN,
     recoveries: SUBSET Recoveries, executed: SUBSET Recoveries,
     whenReady: [Recoveries -> 0..(MaxTimestamp + LockTime)],
     asked: [Recoveries -> 0..MaxTimestamp]]

AccountTypeOK ==
    /\ chain \in Chain
    /\ frames \in Seq([by: Addrs \cup {"caught"}, saved: Chain]) /\ Len(frames) <= MaxDepth
    /\ timestamp \in 1..MaxTimestamp
    /\ dkimKey \in [added: 0..MaxTimestamp, removed: 0..MaxTimestamp]

Privilege(a) == chain.privileges[a]

-----------------------------------------------------------------------------
(* AmbireAccount *)

\* A key signs or calls with any privilege, a recovery has one of its own.  The entry point is
\* not in control: it hands in what somebody else has signed.
InControl(c) == (\E k \in Keys : c.privileges[k] # "none") \/ c.privileges[Rec] \in {"recovery", "other"}

\* The nonce is incremented before the batch runs.
Signed(c) == [c EXCEPT !.nonce = @ + 1]

EnterFrame(a, before, c) ==
    /\ Len(frames) < MaxDepth
    /\ frames' = Append(frames, [by |-> a, saved |-> before])
    /\ chain' = c
    /\ UNCHANGED <<timestamp, dkimKey>>

Execute(k) ==
    /\ chain.deployed
    /\ chain.nonce < MaxNonce
    /\ Privilege(k) # "none"
    /\ EnterFrame(k, chain, Signed(chain))

ExecuteBySender(k) ==
    /\ chain.deployed
    /\ Privilege(k) # "none"
    /\ EnterFrame(k, chain, chain)

\* The entry point validates all operations of a transaction before it executes the first, and
\* none while it executes one.
NoOperationRuns == \A i \in DOMAIN frames : frames[i].by # Entry
ValidateUserOp(signer) ==
    /\ chain.deployed /\ NoOperationRuns
    /\ Privilege(Entry) = "entry"
    /\ Privilege(signer) # "none"
    /\ chain.accepted < MaxOperations
    /\ chain' = [chain EXCEPT !.accepted = @ + 1]
    /\ UNCHANGED <<frames, timestamp, dkimKey>>

\* executeBySender, called for an operation that was accepted; one that fails is used up.
ExecuteUserOp ==
    /\ chain.deployed /\ NoOperationRuns
    /\ chain.accepted > 0
    /\ Privilege(Entry) # "none"
    /\ LET used == [chain EXCEPT !.accepted = @ - 1] IN EnterFrame(Entry, used, used)

\* tryCatch and tryCatchLimit, or a contract of others that catches.
TryCatch == frames # <<>> /\ EnterFrame("caught", chain, chain)

SetAddrPrivilege(a, p) ==
    /\ frames # <<>>
    /\ chain' = [chain EXCEPT !.privileges[a] = p]
    /\ UNCHANGED <<frames, timestamp, dkimKey>>

\* "Do not allow a signerKey to drop their own privileges": of an operation, the entry point's.
\* Mistake: they may.
MayEndAlways(by) == TRUE
MayEnd(by) == IF by = "caught" THEN TRUE ELSE Privilege(by) # "none"

\* What the outermost call leaves.
LeftBy(by, c) == [c EXCEPT !.waived = by \in {Entry, Rec} /\ ~InControl(c)]
End ==
    /\ frames # <<>>
    /\ MayEnd(Last(frames).by)
    /\ frames' = Front(frames)
    /\ chain' = IF frames' = <<>> THEN LeftBy(Last(frames).by, chain) ELSE chain
    /\ UNCHANGED <<timestamp, dkimKey>>

Fail ==
    /\ frames # <<>>
    /\ chain' = Last(frames).saved
    /\ frames' = Front(frames)
    /\ UNCHANGED <<timestamp, dkimKey>>

-----------------------------------------------------------------------------
(* AmbireFactory: deploySafe goes on if somebody deployed the account before *)

Deployed(c) ==
    IF c.deployed THEN c
    ELSE [c EXCEPT !.deployed = TRUE,
                   !.privileges = [a \in Addrs |-> CASE a \in Owners -> "on"
                                                     [] a = Rec -> "recovery"
                                                     [] OTHER -> "none"]]

Deploy ==
    /\ chain' = Deployed(chain)
    /\ UNCHANGED <<frames, timestamp, dkimKey>>

\* The code has its privileges in it, so the key must be one of them, if the
\* account was deployed just now.
DeployAndExecute(k) ==
    /\ frames = <<>>
    /\ chain.nonce < MaxNonce
    /\ Deployed(chain).privileges[k] # "none"
    /\ EnterFrame(k, chain, Signed(Deployed(chain)))

-----------------------------------------------------------------------------
(* DKIMRecoverySigValidator: validateSig, with valid signatures *)

KeyIsAccepted(r) ==
    r.key = "added" =>
        /\ dkimKey.added > 0
        /\ dkimKey.removed = 0 \/ timestamp < dkimKey.removed + WaitRemoved
        /\ timestamp >= dkimKey.added + WaitAdded

MayRecover(r) ==
    /\ chain.deployed
    /\ Privilege(Rec) = "recovery"
    /\ chain.nonce < MaxNonce
    /\ r \notin chain.recoveries
    /\ KeyIsAccepted(r)

\* One signature only starts the time lock, with a batch that is empty.
NeedsLock(r) == r.mode # "Both"
ReadyAt(r) == timestamp + LockTime

StartTimelock(r) ==
    /\ MayRecover(r)
    /\ NeedsLock(r)
    /\ r \notin chain.executed
    /\ chain.whenReady[r] = 0
    /\ chain' = [Signed(chain) EXCEPT !.whenReady[r] = ReadyAt(r), !.asked[r] = timestamp]
    /\ UNCHANGED <<frames, timestamp, dkimKey>>

TimeHasCome(r) ==
    /\ r \notin chain.executed
    /\ chain.whenReady[r] # 0
    /\ timestamp >= chain.whenReady[r]
MayFinish(r) == NeedsLock(r) => TimeHasCome(r)

\* The batch is the one call that the signatures are about.
Recover(r) ==
    /\ MayRecover(r)
    /\ MayFinish(r)
    /\ LET c == [Signed(chain) EXCEPT
                     !.executed = IF NeedsLock(r) THEN @ \cup {r} ELSE @,
                     !.recoveries = @ \cup {r},
                     !.privileges[r.addr] = r.priv]
       IN /\ c.privileges[Rec] # "none"
          /\ chain' = IF frames = <<>> THEN LeftBy(Rec, c) ELSE c
    /\ UNCHANGED <<frames, timestamp, dkimKey>>

AddDKIMKey ==
    /\ frames = <<>>
    /\ dkimKey.added = 0
    /\ dkimKey' = [dkimKey EXCEPT !.added = timestamp]
    /\ UNCHANGED <<chain, frames, timestamp>>

\* A key may be removed before it is added.
RemoveDKIMKey ==
    /\ frames = <<>>
    /\ dkimKey.removed = 0
    /\ dkimKey' = [dkimKey EXCEPT !.removed = timestamp]
    /\ UNCHANGED <<chain, frames, timestamp>>

AccountTick ==
    /\ frames = <<>>
    /\ timestamp < MaxTimestamp
    /\ timestamp' = timestamp + 1
    /\ chain' = [chain EXCEPT !.accepted = 0]
    /\ UNCHANGED <<frames, dkimKey>>

-----------------------------------------------------------------------------
AccountInit ==
    /\ chain = [deployed |-> FALSE, privileges |-> [a \in Addrs |-> "none"], nonce |-> 0,
                accepted |-> 0, waived |-> FALSE, recoveries |-> {}, executed |-> {},
                whenReady |-> [r \in Recoveries |-> 0], asked |-> [r \in Recoveries |-> 0]]
    /\ frames = <<>>
    /\ timestamp = 1
    /\ dkimKey = [added |-> 0, removed |-> 0]

AccountNext ==
    \/ \E k \in Keys : Execute(k) \/ DeployAndExecute(k) \/ ExecuteBySender(k) \/ ValidateUserOp(k)
    \/ ExecuteUserOp
    \/ \E s \in Settings : SetAddrPrivilege(s[1], s[2])
    \/ TryCatch \/ End \/ Fail \/ Deploy
    \/ \E r \in Recoveries : StartTimelock(r) \/ Recover(r)
    \/ AddDKIMKey \/ RemoveDKIMKey \/ AccountTick

AccountSpec == AccountInit /\ [][AccountNext]_accountVars

-----------------------------------------------------------------------------
(* Properties *)

\* "The actual anti-bricking mechanism": whatever calls itself back, fails or is caught in a
\* transaction, an account that it leaves has a key or a recovery in control.  That is unless the
\* outermost call was not made by a key.  For a user operation the mechanism looks at the privilege
\* of the entry point, which called (AmbireAccount.sol:187-191), so the operation may take the last
\* key's; then validateUserOp, which wants a signer with a privilege, accepts no other (304-321).
\* And a recovery may give its own address a privilege that nobody can sign with.
NotBricked ==
    frames = <<>> /\ chain.deployed => InControl(chain) \/ chain.waived

\* "In these modes, we require a timelock": nobody recovers with one signature
\* before the owner had the time to react, counted from when it was asked for.
RecoveryWaits ==
    \A r \in chain.recoveries :
        r.mode # "Both" =>
            /\ chain.asked[r] > 0
            /\ timestamp >= chain.asked[r] + LockTime

AccountIsKept == NotBricked /\ RecoveryWaits
=============================================================================
