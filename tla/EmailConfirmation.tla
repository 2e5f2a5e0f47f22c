-------------------------- MODULE EmailConfirmation --------------------------
(***************************************************************************)
(* How EmailVaultController confirms an email: the relayer sends a link,   *)
(* and the vault is polled until the user has opened it, cancels, or three *)
(* minutes are over.  The methods that need the vault share one flag that  *)
(* says that a confirmation is waited for and one that stops the polling.  *)
(* withStatus lets one of getEmailVaultInfo, uploadKeyStoreSecret and      *)
(* requestKeysSync run at a time; handleMagicLinkKey and                   *)
(* fulfillSyncRequests are called without it.  There is one email.         *)
(*                                                                         *)
(* A method is the sequence of what it still awaits, and what it runs once *)
(* it has the key of a link.                                               *)
(***************************************************************************)
EXTENDS Integers, Sequences

CONSTANTS
    EmailTurns   \* bound: what the user does in one behaviour

VARIABLES
    isWaiting,    \* #isWaitingEmailConfirmation
    isUploading,  \* #isUploadingSecret
    stopPolling,  \* #shouldStopConfirmationPolling
    magicKey, sessionKey,
    known,        \* emailVaultStates has the email
    flows,        \* methods in progress: [wrapped, todo, fn]
    threw,        \* (history) a method left its flags behind by throwing
    emailTurns
vars == <<isWaiting, isUploading, stopPolling, magicKey, sessionKey, known, flows, threw, emailTurns>>
flags == <<isWaiting, isUploading, stopPolling>>
keys == <<magicKey, sessionKey, known>>

Turn == emailTurns > 0 /\ emailTurns' = emailTurns - 1
\* f is at a stage, and goes on with others in its place
At(f, stage) == f.todo[1] = stage /\ UNCHANGED emailTurns
Turned(f, stages) == [f EXCEPT !.todo = stages \o Tail(f.todo)]
Live(fs) == {f \in fs : f.todo # <<>>}
Goes(f, stages) == flows' = Live((flows \ {f}) \cup {Turned(f, stages)})
Asks(f, fn, stages) == flows' = (flows \ {f}) \cup {[Turned(f, <<"ask">> \o stages) EXCEPT !.fn = fn]}
Throws(f) == flows' = flows \ {f} /\ threw' = TRUE

\* -- handleMagicLinkKey ----------------------------------------------------------

Ask(f) ==
    /\ At(f, "ask") /\ UNCHANGED <<isUploading, keys, threw>>
    /\ IF magicKey THEN isWaiting' = FALSE /\ Goes(f, <<>>) /\ UNCHANGED stopPolling
       ELSE isWaiting' = TRUE /\ stopPolling' = FALSE /\ Goes(f, <<"link">>)
LinkSent(f) == At(f, "link") /\ Goes(f, <<"poll">>) /\ UNCHANGED <<flags, keys, threw>>
LinkFails(f) == At(f, "link") /\ Throws(f) /\ UNCHANGED <<flags, keys>>
\* Mistake: the polling ends as it is
KeepsWaiting == isWaiting
\* the cleanup of Polling.exec
CleanedUp == FALSE
\* The vault answers 401: the link was not opened yet.
PollRefused(f) ==
    /\ At(f, "poll") /\ isWaiting' = TRUE /\ UNCHANGED <<isUploading, stopPolling, keys, flows, threw>>
PollStopped(f) ==
    /\ At(f, "poll") /\ stopPolling /\ isWaiting' = CleanedUp /\ Goes(f, <<>>)
    /\ UNCHANGED <<isUploading, stopPolling, keys, threw>>
\* A confirmation that was cancelled meanwhile leaves no key.
LinkOpened(f) ==
    /\ At(f, "poll") /\ isWaiting' = CleanedUp
    /\ IF stopPolling THEN Goes(f, <<>>) /\ UNCHANGED magicKey
       ELSE magicKey' = TRUE /\ Goes(f, f.fn \o <<"keep">>)
    /\ UNCHANGED <<isUploading, stopPolling, sessionKey, known, threw>>
PollTimesOut(f) ==
    /\ At(f, "poll") /\ isWaiting' = CleanedUp /\ stopPolling' = TRUE /\ Goes(f, <<>>)
    /\ UNCHANGED <<isUploading, keys, threw>>
PollFails(f) ==
    /\ At(f, "poll") /\ isWaiting' = CleanedUp /\ Goes(f, <<>>)
    /\ UNCHANGED <<isUploading, stopPolling, keys, threw>>
\* nobody waits for the session key
Keep(f) ==
    /\ At(f, "keep") /\ UNCHANGED <<flags, keys, threw>>
    /\ flows' = Live((flows \ {f}) \cup
          {Turned(f, <<>>), [wrapped |-> FALSE, todo |-> <<"session">>, fn |-> <<>>]})

\* -- #getEmailVaultInfo and #requestSessionKey ---------------------------------

Info(f) ==
    /\ At(f, "info") /\ UNCHANGED <<flags, keys, threw>>
    /\ IF magicKey \/ sessionKey THEN Goes(f, <<"fetch", "infoEnd">>) ELSE Asks(f, <<"info">>, <<"infoEnd">>)
Fetched(f) ==
    /\ At(f, "fetch") /\ known' = TRUE /\ Goes(f, IF sessionKey THEN <<>> ELSE <<"session">>)
    /\ UNCHANGED <<flags, magicKey, sessionKey, threw>>
FetchFails(f) == At(f, "fetch") /\ Goes(f, <<>>) /\ UNCHANGED <<flags, keys, threw>>
InfoEnd(f) ==
    /\ At(f, "infoEnd") /\ isWaiting' = FALSE /\ Goes(f, <<>>)
    /\ UNCHANGED <<isUploading, stopPolling, keys, threw>>
SessionArrives(f) ==
    /\ At(f, "session") /\ sessionKey' = (sessionKey \/ magicKey) /\ Goes(f, <<>>)
    /\ UNCHANGED <<flags, magicKey, known, threw>>
SessionFails(f) == At(f, "session") /\ Throws(f) /\ UNCHANGED <<flags, keys>>

\* -- #uploadKeyStoreSecret and the methods that share keys ---------------------

Upload(f) ==
    /\ At(f, "upload") /\ UNCHANGED <<flags, keys, threw>>
    /\ IF magicKey \/ stopPolling THEN Goes(f, <<"secret">>) ELSE Asks(f, <<>>, <<"secret">>)
\* A flag that an earlier cancel left set stops this upload too.
Secret(f) ==
    /\ At(f, "secret") /\ UNCHANGED <<isWaiting, stopPolling, keys, threw>>
    /\ isUploading' = (~stopPolling /\ magicKey)
    /\ IF ~stopPolling /\ magicKey THEN Goes(f, <<"send">>) ELSE flows' = flows \ {f}
Sent(f) == At(f, "send") /\ Goes(f, <<"info", "sent">>) /\ UNCHANGED <<flags, keys, threw>>
Rejected(f) == At(f, "send") /\ Goes(f, <<"sent">>) /\ UNCHANGED <<flags, keys, threw>>
SendFails(f) == At(f, "send") /\ Throws(f) /\ UNCHANGED <<flags, keys>>
UploadEnd(f) ==
    /\ At(f, "sent") /\ isUploading' = FALSE /\ Goes(f, <<>>)
    /\ UNCHANGED <<isWaiting, stopPolling, keys, threw>>
\* requestKeysSync asks for a key in the end, whether it had one or not.
Sync(f) == At(f, "sync") /\ Asks(f, <<"sync">>, <<>>) /\ UNCHANGED <<flags, keys, threw>>
Fulfil(f) ==
    /\ At(f, "fulfil") /\ UNCHANGED <<flags, keys, threw>>
    /\ IF magicKey \/ sessionKey THEN Goes(f, <<>>) ELSE Asks(f, <<"info", "fulfil">>, <<>>)

\* -- The user --------------------------------------------------------------------

Begin(stages, wrapped) ==
    /\ Turn
    /\ wrapped => \A f \in flows : ~f.wrapped
    /\ flows' = flows \cup {[wrapped |-> wrapped, todo |-> stages, fn |-> <<>>]}
    /\ UNCHANGED <<flags, keys, threw>>
GetEmailVaultInfo == Begin(<<"info">>, TRUE)
UploadKeyStoreSecret == Begin(IF known THEN <<"upload">> ELSE <<"info", "upload">>, TRUE)
RequestKeysSync == Begin(<<"sync">>, TRUE)
FulfillSyncRequests == Begin(<<"info", "fulfil">>, FALSE)
HandleMagicLinkKey == Begin(<<"ask">>, FALSE)
CancelEmailConfirmation ==
    /\ Turn /\ stopPolling' = TRUE /\ isWaiting' = FALSE /\ UNCHANGED <<isUploading, keys, flows, threw>>
\* when the wallet is locked, or the link has expired
CleanMagicAndSessionKeys ==
    /\ Turn /\ magicKey' = FALSE /\ sessionKey' \in {FALSE, sessionKey}
    /\ UNCHANGED <<flags, known, flows, threw>>

Init ==
    /\ isWaiting = FALSE /\ isUploading = FALSE /\ stopPolling = FALSE
    /\ magicKey \in BOOLEAN /\ sessionKey = FALSE /\ known \in BOOLEAN
    /\ flows = {} /\ threw = FALSE /\ emailTurns = EmailTurns
Next ==
    \/ GetEmailVaultInfo \/ UploadKeyStoreSecret \/ RequestKeysSync \/ FulfillSyncRequests
    \/ HandleMagicLinkKey \/ CancelEmailConfirmation \/ CleanMagicAndSessionKeys
    \/ \E f \in flows :
          \/ Ask(f) \/ LinkSent(f) \/ LinkFails(f) \/ PollRefused(f) \/ PollStopped(f) \/ LinkOpened(f)
          \/ PollTimesOut(f) \/ PollFails(f) \/ Keep(f) \/ Info(f) \/ Fetched(f) \/ FetchFails(f)
          \/ InfoEnd(f)
          \/ SessionArrives(f) \/ SessionFails(f) \/ Upload(f) \/ Secret(f) \/ Sent(f) \/ Rejected(f)
          \/ SendFails(f) \/ UploadEnd(f) \/ Sync(f) \/ Fulfil(f)
Spec == Init /\ [][Next]_vars
-----------------------------------------------------------------------------
TypeOK ==
    /\ {isWaiting, isUploading, stopPolling, magicKey, sessionKey, known, threw} \subseteq BOOLEAN
    /\ \A f \in flows : f.todo # <<>> /\ Len(f.fn) \in 0..2

\* Once no method runs, the vault neither waits for a confirmation nor uploads: however the polls of
\* several methods end, be it with an answer that comes after the cancel, and whatever they run
\* after it; only a method that threw may leave a flag behind (emailVault.ts:162-240, 276-372).
QuietVaultIsReady == flows = {} /\ ~threw => ~isWaiting /\ ~isUploading
=============================================================================
