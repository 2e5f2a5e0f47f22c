--------------------------- MODULE MessageSigning ---------------------------
(***************************************************************************)
(* SignMessageController, and handleSignMessage of MainController, which   *)
(* stores what was signed and answers the dapp.  The controller is one for *)
(* all messages: another message may be put into it while the hardware     *)
(* wallet, the keystore or the check of the signature is waited for.       *)
(* A signature is known by the message that it is of.                      *)
(***************************************************************************)
EXTENDS Integers

CONSTANTS
    Messages,
    Presses,     \* bound: calls of the user in one behaviour
    None

VARIABLES
    messageToSign,
    signingKey,     \* a key was chosen
    signedMessage,  \* [content, signature]
    signJob,        \* the sign that withStatus runs: [at, signature, valid]
    handlers,       \* handleSignMessage in progress: [n, at, signed]
    stored,         \* what Activity holds
    answers,        \* the signature that each dapp got
    replaced,       \* (history) messages put in while a signature was being checked
    presses
vars == <<messageToSign, signingKey, signedMessage, signJob, handlers, stored, answers, replaced, presses>>

Press == presses > 0 /\ presses' = presses - 1
Handler(at) == [n |-> presses, at |-> at, signed |-> None]
Moved(h, at) == handlers' = (handlers \ {h}) \cup {[h EXCEPT !.at = at]}

\* -- The controller ----------------------------------------------------------

\* init resets first; a message that is rejected leaves nothing
InitMessage(m) ==
    /\ Press /\ messageToSign' = m /\ signingKey' = FALSE /\ signedMessage' = None
    /\ replaced' = replaced \cup (IF signJob # None /\ signJob.at = "verifying" THEN {m} \ {None} ELSE {})
    /\ UNCHANGED <<signJob, handlers, stored, answers>>
SetSigningKey ==
    /\ Press /\ signingKey' = TRUE
    /\ UNCHANGED <<messageToSign, signedMessage, signJob, handlers, stored, answers, replaced>>

\* The key is there: the message is read, and the device asked to sign it.
SignerArrives ==
    /\ signJob # None /\ signJob.at = "signer" /\ messageToSign # None
    /\ signJob' = [at |-> "signing", signature |-> messageToSign, valid |-> FALSE]
    /\ UNCHANGED <<messageToSign, signingKey, signedMessage, handlers, stored, answers, replaced, presses>>
\* verifyMessage, with the content that is there now
Checked(signature) == signature = messageToSign
SignatureArrives ==
    /\ signJob # None /\ signJob.at = "signing" /\ messageToSign # None
    /\ signJob' = [signJob EXCEPT !.at = "verifying", !.valid = Checked(signJob.signature)]
    /\ UNCHANGED <<messageToSign, signingKey, signedMessage, handlers, stored, answers, replaced, presses>>
\* The content is read again.
Verified ==
    /\ signJob # None /\ signJob.at = "verifying" /\ signJob.valid /\ messageToSign # None
    /\ signJob' = None /\ signedMessage' = [content |-> messageToSign, signature |-> signJob.signature]
    /\ \E h \in handlers : h.at = "signing" /\ Moved(h, "signed")
    /\ UNCHANGED <<messageToSign, signingKey, stored, answers, replaced, presses>>
\* The user refuses, the check fails, or there is no message any more: withStatus reports it.
SignThrows ==
    /\ signJob # None /\ signJob' = None
    /\ \E h \in handlers : h.at = "signing" /\ Moved(h, "signed")
    /\ UNCHANGED <<messageToSign, signingKey, signedMessage, stored, answers, replaced, presses>>

\* -- handleSignMessage ----------------------------------------------------------

\* withStatus refuses a second sign, and #sign one without a key
SignOrRefuse(h) ==
    IF signJob = None /\ messageToSign # None /\ signingKey
    THEN /\ signJob' = [at |-> "signer", signature |-> None, valid |-> FALSE]
         /\ handlers' = (handlers \ {h}) \cup {[h EXCEPT !.at = "signing"]}
    ELSE UNCHANGED signJob /\ handlers' = (handlers \ {h}) \cup {[h EXCEPT !.at = "signed"]}
\* The state of the account is known, or fetched first.
HandleSignMessage ==
    /\ Press /\ messageToSign # None
    /\ \/ SignOrRefuse(Handler("state"))
       \/ handlers' = handlers \cup {Handler("state")} /\ UNCHANGED signJob
    /\ UNCHANGED <<messageToSign, signingKey, signedMessage, stored, answers, replaced>>
\* What is signed is the message that is there by now.
AccountStateArrives(h) ==
    /\ h \in handlers /\ h.at = "state" /\ SignOrRefuse(h)
    /\ UNCHANGED <<messageToSign, signingKey, signedMessage, stored, answers, replaced, presses>>
AccountStateMissing(h) ==
    /\ h \in handlers /\ h.at = "state" /\ handlers' = handlers \ {h}
    /\ UNCHANGED <<messageToSign, signingKey, signedMessage, signJob, stored, answers, replaced, presses>>
\* addSignedMessage, of whatever the controller says was signed
SignEnded(h) ==
    /\ h \in handlers /\ h.at = "signed"
    /\ handlers' = (handlers \ {h}) \cup
          (IF signedMessage = None THEN {} ELSE {[h EXCEPT !.at = "storing", !.signed = signedMessage]})
    /\ UNCHANGED <<messageToSign, signingKey, signedMessage, signJob, stored, answers, replaced, presses>>
\* resolveUserRequest, if the request is still there
Stored(h) ==
    /\ h \in handlers /\ h.at = "storing" /\ handlers' = handlers \ {h}
    /\ stored' = stored \cup {h.signed}
    /\ answers' = IF answers[h.signed.content] # None THEN answers
                  ELSE [answers EXCEPT ![h.signed.content] = h.signed.signature]
    /\ UNCHANGED <<messageToSign, signingKey, signedMessage, signJob, replaced, presses>>

Init ==
    /\ messageToSign = None /\ signingKey = FALSE /\ signedMessage = None /\ signJob = None /\ handlers = {}
    /\ stored = {} /\ answers = [m \in Messages |-> None] /\ replaced = {} /\ presses = Presses
Next ==
    \/ \E m \in Messages \cup {None} : InitMessage(m)
    \/ SetSigningKey \/ HandleSignMessage
    \/ SignerArrives \/ SignatureArrives \/ Verified \/ SignThrows
    \/ \E h \in handlers : AccountStateArrives(h) \/ AccountStateMissing(h) \/ SignEnded(h) \/ Stored(h)

Spec == Init /\ [][Next]_vars
-----------------------------------------------------------------------------
TypeOK ==
    /\ messageToSign \in Messages \cup {None} /\ answers \in [Messages -> Messages \cup {None}]
    /\ signJob # None => \E h \in handlers : h.at = "signing"
    /\ signedMessage # None => signedMessage.content = messageToSign

\* A dapp gets the signature of its own message, although the controller is given other messages at
\* any await; only one that is put in while the check of a signature is on the way may be answered
\* with the signature that is being checked (signMessage.ts:131-262, main.ts:1114-1150).
AnswersAreVerified ==
    \A m \in Messages : answers[m] # None => answers[m] = m \/ m \in replaced
=============================================================================
