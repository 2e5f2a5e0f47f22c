----------------------------- MODULE AddressBook -----------------------------
(***************************************************************************)
(* AddressBookController: the contacts that the user added, together with  *)
(* the wallet's accounts but for the selected one.  Addresses are stored   *)
(* in their checksummed form; the user may type them in another.           *)
(***************************************************************************)
EXTENDS Integers, Sequences

CONSTANTS
    Addresses,
    Names,
    Edits,     \* bound: contacts that are added, renamed or removed
    Restarts,  \* bound
    None

VARIABLES
    contacts,        \* #manuallyAddedContacts: a contact is told from another by when it was created
    saved,           \* 'contacts'
    writes,          \* #storageUpdateQueue: the lists to be stored, each with what the user made of them
    accounts, selected,
    load,            \* "loading", "loaded" or "failed"
    asked,           \* ghost: the name that the user last gave an address, None if removed, of what was
                     \* not lost with the extension
    doubled,         \* ghost: addresses that were added again while they were not shown
    kept,            \* ghost: asked and doubled by the last write that was done
    spoiled,         \* ghost: a load has failed, so that the next change writes over what was stored
    edits, restarts
bookVars == <<contacts, saved, writes, accounts, selected, load, asked, doubled, kept, spoiled, edits, restarts>>
userVars == <<asked, doubled, kept>>

Typed == {[of |-> a, plain |-> p] : a \in Addresses, p \in BOOLEAN}
\* Mistake: an address is compared as it was typed.
MatchesAsTyped(contact, typed) == typed.plain /\ contact.address = typed.of

\* Both sides of a comparison are lowercased
Matches(contact, typed) == contact.address = typed.of

Added(a) == \E c \in contacts : c.address = a
\* contacts
Shown == IF selected = None THEN {}
         ELSE ({c.address : c \in contacts} \cup accounts) \ {selected}

\* #handleManuallyAddedContactsChange does not wait for the write.
Edit(list, names, twice) ==
    /\ contacts' = list /\ asked' = names /\ doubled' = twice
    /\ writes' = Append(writes, [list |-> list, asked |-> names, doubled |-> twice])
    /\ edits' = edits + 1
    /\ UNCHANGED <<saved, accounts, selected, load, kept, spoiled, restarts>>
MayEdit == load # "loading" /\ edits < Edits

AddContact(name, typed) ==
    /\ MayEdit /\ typed.of \notin Shown
    /\ Edit(contacts \cup {[address |-> typed.of, name |-> name, createdAt |-> edits]},
            [asked EXCEPT ![typed.of] = name],
            IF Added(typed.of) THEN doubled \cup {typed.of} ELSE doubled)
RenameContact(typed, name) ==
    /\ MayEdit /\ Added(typed.of)
    /\ Edit({IF Matches(c, typed) THEN [c EXCEPT !.name = name] ELSE c : c \in contacts},
            [asked EXCEPT ![typed.of] = name], doubled)
RemoveContact(typed) ==
    /\ MayEdit /\ Added(typed.of)
    /\ Edit({c \in contacts : ~Matches(c, typed)},
            [asked EXCEPT ![typed.of] = None], doubled \ {typed.of})

\* StorageController: the writes are done in their order, and one that fails is left out.
Write ==
    /\ writes # <<>> /\ writes' = Tail(writes)
    /\ saved' = Head(writes).list
    /\ kept' = [asked |-> Head(writes).asked, doubled |-> Head(writes).doubled]
    /\ UNCHANGED <<contacts, accounts, selected, load, asked, doubled, spoiled, edits, restarts>>
WriteFails ==
    /\ writes # <<>> /\ writes' = Tail(writes)
    /\ UNCHANGED <<contacts, saved, accounts, selected, load, userVars, spoiled, edits, restarts>>

SetAccount(a) ==
    /\ a \in accounts /\ a # selected /\ selected' = a
    /\ UNCHANGED <<contacts, saved, writes, accounts, load, userVars, spoiled, edits, restarts>>
AddAccount(a) ==
    /\ a \notin accounts /\ accounts' = accounts \cup {a}
    /\ UNCHANGED <<contacts, saved, writes, selected, load, userVars, spoiled, edits, restarts>>
RemoveAccount(a) ==
    /\ a \in accounts /\ accounts' = accounts \ {a}
    /\ selected' = IF selected = a THEN None ELSE selected
    /\ UNCHANGED <<contacts, saved, writes, load, userVars, spoiled, edits, restarts>>

Load ==
    /\ load = "loading" /\ load' = "loaded" /\ contacts' = saved
    /\ UNCHANGED <<saved, writes, accounts, selected, userVars, spoiled, edits, restarts>>
LoadFails ==
    /\ load = "loading" /\ load' = "failed" /\ spoiled' = TRUE
    /\ UNCHANGED <<contacts, saved, writes, accounts, selected, userVars, edits, restarts>>
\* What was not written is lost.
Restart ==
    /\ restarts < Restarts /\ restarts' = restarts + 1
    /\ contacts' = {} /\ load' = "loading" /\ writes' = <<>>
    /\ asked' = kept.asked /\ doubled' = kept.doubled
    /\ UNCHANGED <<saved, accounts, selected, kept, spoiled, edits>>

Init ==
    /\ contacts = {} /\ saved = {} /\ writes = <<>> /\ load = "loading"
    /\ accounts \in SUBSET Addresses /\ selected \in accounts \cup {None}
    /\ asked = [a \in Addresses |-> None] /\ doubled = {} /\ spoiled = FALSE
    /\ kept = [asked |-> asked, doubled |-> doubled]
    /\ edits = 0 /\ restarts = 0
Next ==
    \/ \E typed \in Typed, name \in Names : AddContact(name, typed) \/ RenameContact(typed, name)
    \/ \E typed \in Typed : RemoveContact(typed)
    \/ \E a \in Addresses : SetAccount(a) \/ AddAccount(a) \/ RemoveAccount(a)
    \/ Write \/ WriteFails \/ Load \/ LoadFails \/ Restart
Spec == Init /\ [][Next]_bookVars
-----------------------------------------------------------------------------
Contacts == [address : Addresses, name : Names, createdAt : 0..Edits]

\* Type correctness.
TypeOK ==
    /\ contacts \cup saved \subseteq Contacts
    /\ writes \in Seq([list : SUBSET Contacts, asked : [Addresses -> Names \cup {None}], doubled : SUBSET Addresses])
    /\ kept \in [asked : [Addresses -> Names \cup {None}], doubled : SUBSET Addresses]
    /\ accounts \subseteq Addresses /\ selected \in accounts \cup {None}
    /\ load \in {"loading", "loaded", "failed"}
    /\ asked \in [Addresses -> Names \cup {None}] /\ doubled \subseteq Addresses /\ spoiled \in BOOLEAN
    /\ edits \in 0..Edits /\ restarts \in 0..Restarts

\* The book holds what the user made of it, under the last name and once, whatever is selected;
\* after a restart, what the user had made of it by the last write that was done, however many were
\* on their way or failed (addressBook.ts:86-90).  Excepted are a load that fails, after which the next change writes over
\* what was stored, and an address that was added again while it was hidden, because it is the
\* selected account's or none is selected (addressBook.ts:60-180).
BookIsKept ==
    load = "loaded" /\ ~spoiled => \A a \in Addresses :
        LET entries == {c \in contacts : c.address = a}
        IN IF asked[a] = None THEN entries = {}
           ELSE a \notin doubled => \E c \in entries : entries = {c} /\ c.name = asked[a]
=============================================================================
