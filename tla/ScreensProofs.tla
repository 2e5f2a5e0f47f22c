----------------------------- MODULE ScreensProofs ----------------------------
(***************************************************************************)
(* Theorems about MCScreens for every value of its constants: the screens, *)
(* one by one, keep fetching what they show as loading, keep their loops,  *)
(* record what was relayed, and sign what they show.                       *)
(*                                                                         *)
(* The invariants of most parts are in ScreenPartsProofs; here are those   *)
(* of the lists and routes of a swap and of gas prices, and all together.  *)
(* A list is explained by the call that was made last and by what it will  *)
(* show when it finds the form changed (TokInv), the status of a route by  *)
(* how far its operation has come and who was told (RouteInv), and the fee *)
(* of a speed by the prices that were fetched for it (GasInv).             *)
(***************************************************************************)
EXTENDS ScreenPartsProofs

-----------------------------------------------------------------------------
(* swapAndBridge.ts: the tokens to get.  What is kept for a pair of chains *)
(* is of the chain to get, and so is the old list that a fetch would show  *)
(* if it failed.                                                           *)

Asked == Tok!Addresses \cup {Tok!Nothing}
TokenForm == [from : Tok!Token \cup {None}, fromChain : Chains, toChain : Chains,
              to : Tok!Token \cup {None}, list : SUBSET Tok!Token]
TokenLists == [tokens : SUBSET Tok!Token, old : BOOLEAN]
TokenFetch == [n : Nat, key : Pairs, select : Asked, before : SUBSET Tok!Token]
OfChain(tokens, chain) == \A t \in tokens : t.chain = chain

\* The form shows tokens of the chain to get, or has none.
ShowsChain(f) == OfChain(f.list, f.toChain) /\ (f.to # None => f.to.chain = f.toChain)
KeptIsOfChain == \A k \in Pairs : tokenLists[k] # None => OfChain(tokenLists[k].tokens, k[2])
OldIsOfChain == \A c \in listFetches : OfChain(c.before, c.key[2])
ListIsAwaited ==
    updateToTokenListStatus = "LOADING" /\ ~dropped => listFetches # {} \/ listSelecting > 0

TokTypes ==
    /\ tokenForm \in TokenForm /\ tokenLists \in [Pairs -> TokenLists \cup {None}]
    /\ listThrottled \in Asked \cup {None} /\ listFetches \subseteq TokenFetch
    /\ listSelecting \in Nat /\ adding \in Tok!Token \cup {None} /\ listTurns \in Nat
    /\ misfiled \in BOOLEAN
ListsAreOfChain ==
    ~misfiled => /\ KeptIsOfChain /\ OldIsOfChain
                 /\ listThrottled = None => ShowsChain(tokenForm)
TokInv == TokTypes /\ ListsAreOfChain /\ ListIsAwaited

\* It implies what the screens' runs check of the lists.
LEMMA TokKeepsPromises ==
    ASSUME TokInv
    PROVE  Tok!FetchingIsCurrent
<1>2. ASSUME ~misfiled, NEW k \in DOMAIN tokenLists, tokenLists[k] # None
      PROVE  \A t \in tokenLists[k].tokens : t.chain = k[2]
      BY <1>2 DEF TokInv, ListsAreOfChain, KeptIsOfChain, OfChain, TokTypes
<1>3. ASSUME ~misfiled, listThrottled = None
      PROVE  \A t \in tokenForm.list \cup ({tokenForm.to} \ {None}) : t.chain = tokenForm.toChain
      BY <1>3 DEF TokInv, ListsAreOfChain, ShowsChain, OfChain
<1> QED  BY <1>2, <1>3 DEF TokInv, ListIsAwaited, Tok!FetchingIsCurrent

\* It holds at first.
LEMMA TokInvInit ==
    ASSUME Tok!Init
    PROVE  TokInv
<1>1. PICK home \in Chains :
        tokenForm = [from |-> None, fromChain |-> home, toChain |-> home, to |-> None, list |-> {}]
      BY DEF Tok!Init
<1>5. ListsAreOfChain
      BY <1>1 DEF ListsAreOfChain, KeptIsOfChain, OldIsOfChain, ShowsChain, OfChain, TokenForm, Tok!Init,
         Pairs
<1> QED  BY <1>1, <1>5 DEF TokInv, ListIsAwaited, TokTypes, TokenForm, Tok!Init, Pairs

\* A list is shown: the token that was to be selected is one of it.
LEMMA ListIsShown ==
    ASSUME NEW f \in TokenForm, NEW list \in SUBSET Tok!Token, NEW select, listSelecting \in Nat,
           Tok!ShowList(f, list, select)
    PROVE  /\ tokenForm' \in TokenForm /\ tokenForm'.list = list
           /\ tokenForm'.fromChain = f.fromChain /\ tokenForm'.toChain = f.toChain
           /\ tokenForm'.to = f.to \/ tokenForm'.to \in list
           /\ listSelecting' \in Nat
           /\ updateToTokenListStatus' = "INITIAL" \/ listSelecting' > 0
<1> DEFINE found == Tok!InList(list, select)
<1>1. PICK to : /\ to = IF f.to = None /\ found # {} THEN CHOOSE t \in found : TRUE ELSE f.to
                /\ tokenForm' = [f EXCEPT !.list = list, !.to = to]
      BY DEF Tok!ShowList
<1>2. found \subseteq list /\ (found # {} => (CHOOSE t \in found : TRUE) \in found)
      BY DEF Tok!InList
<1>3. /\ listSelecting' \in Nat
      /\ updateToTokenListStatus' = "INITIAL" \/ listSelecting' > 0
      BY DEF Tok!ShowList
<1> HIDE DEF found
<1> QED  BY <1>1, <1>2, <1>3 DEF TokenForm

\* A list is fetched, or shown from what is kept.
LEMMA ListIsFetched ==
    ASSUME TokTypes, ~misfiled => KeptIsOfChain /\ OldIsOfChain, NEW f \in TokenForm,
           NEW select \in Asked, Tok!FetchList(f, select)
    PROVE  /\ tokenForm' \in TokenForm /\ listFetches' \subseteq TokenFetch /\ listSelecting' \in Nat
           /\ updateToTokenListStatus' = "LOADING" => listFetches' # {} \/ listSelecting' > 0
           /\ ~misfiled => ShowsChain(tokenForm') /\ OldIsOfChain'
<1> DEFINE key == Tok!Key(f)
<1>1. PICK emptied : emptied = [f EXCEPT !.list = {}, !.to = None]
      OBVIOUS
<1>2. /\ emptied \in TokenForm /\ emptied.list = {} /\ emptied.to = None
      /\ emptied.fromChain = f.fromChain /\ emptied.toChain = f.toChain
      BY <1>1 DEF TokenForm
<1>4. key \in Pairs /\ key[2] = f.toChain
      BY DEF Tok!Key, Pairs, TokenForm
<1>5. tokenLists[key] \in TokenLists \cup {None} /\ listSelecting \in Nat /\ listTurns \in Nat
      /\ listFetches \subseteq TokenFetch
      BY <1>4 DEF TokTypes
<1>6. CASE Tok!Fresh(f)
  <2>1. /\ tokenLists[key] # None /\ Tok!ShowList(emptied, tokenLists[key].tokens, select)
        /\ listFetches' = listFetches
        BY <1>1, <1>6 DEF Tok!FetchList, Tok!Fresh
  <2> DEFINE list == tokenLists[key].tokens
  <2>3. ~misfiled => OfChain(list, f.toChain)
        BY <1>4, <2>1 DEF KeptIsOfChain
  <2> HIDE DEF list, key
  <2> QED  BY <1>2, <1>5, <2>1, <2>3, ListIsShown DEF OldIsOfChain, ShowsChain, OfChain, list, TokenLists
<1>7. CASE ~Tok!Fresh(f)
  <2> DEFINE before == IF tokenLists[key] = None THEN {} ELSE tokenLists[key].tokens
             c == [n |-> listTurns, key |-> key, select |-> select, before |-> before]
  <2>1. /\ tokenForm' = emptied /\ listSelecting' = listSelecting
        /\ listFetches' = listFetches \cup {c}
        BY <1>1, <1>7 DEF Tok!FetchList
  <2>2. before \in SUBSET Tok!Token
        BY <1>5 DEF TokenLists
  <2>3. ~misfiled => OfChain(before, key[2])
        BY <1>4 DEF KeptIsOfChain, OfChain
  <2> HIDE DEF before, key
  <2>4. c \in TokenFetch /\ c.before = before /\ c.key = key
        BY <1>4, <1>5, <2>2 DEF TokenFetch
  <2> HIDE DEF c
  <2> QED  BY <1>2, <1>5, <2>1, <2>3, <2>4 DEF ShowsChain, OfChain, OldIsOfChain
<1> QED  BY <1>6, <1>7

\* An update of the list, which may be held back.
LEMMA ListIsUpdated ==
    ASSUME TokInv, NEW f \in TokenForm, NEW select \in Asked, Tok!UpdateToTokenList(f, select),
           UNCHANGED <<tokenLists, adding, misfiled, dropped>>, listTurns' \in Nat
    PROVE  TokInv'
<1>1. TokTypes /\ ListsAreOfChain /\ ListIsAwaited
      BY DEF TokInv
<1>2. CASE listRecent
  <2>4. ListsAreOfChain'
        BY <1>1, <1>2, ScreensAssumption DEF ListsAreOfChain, KeptIsOfChain, OldIsOfChain, Asked,
           Tok!Addresses, Tok!UpdateToTokenList
  <2> QED  BY <1>1, <1>2, <2>4 DEF TokInv, ListIsAwaited, TokTypes, Tok!UpdateToTokenList
<1>3. CASE ~listRecent
      BY <1>1, <1>3, ListIsFetched DEF TokInv, ListIsAwaited, ListsAreOfChain, KeptIsOfChain,
         Tok!UpdateToTokenList, TokTypes
<1> QED  BY <1>2, <1>3

\* Another form, without an update.
LEMMA FormIsKept ==
    ASSUME TokInv, NEW f \in TokenForm, ShowsChain(tokenForm) => ShowsChain(f), tokenForm' = f,
           UNCHANGED <<tokenLists, updateToTokenListStatus, listThrottled, listFetches,
                       listSelecting, adding, misfiled, dropped>>, listTurns' \in Nat
    PROVE  TokInv'
<1> QED  BY DEF TokInv, ListIsAwaited, TokTypes, ListsAreOfChain, KeptIsOfChain, OldIsOfChain

\* A list is there at last, the new one or the old: it is shown if its chains are still chosen.
LEMMA ListEnds ==
    ASSUME TokInv, NEW c \in listFetches, listFetches' = listFetches \ {c}, NEW list \in SUBSET Tok!Token,
           ~misfiled => OfChain(list, c.key[2]),
           IF c.key = Tok!Key(tokenForm) THEN Tok!ShowList(tokenForm, list, c.select)
           ELSE UNCHANGED <<tokenForm, updateToTokenListStatus, listSelecting>>,
           tokenLists' \in [Pairs -> TokenLists \cup {None}],
           ~misfiled' => ~misfiled /\ KeptIsOfChain', misfiled' \in BOOLEAN,
           ~dropped' => ~dropped /\ c.key = Tok!Key(tokenForm),
           UNCHANGED <<listThrottled, adding, listTurns>>
    PROVE  TokInv'
<1>3. CASE c.key = Tok!Key(tokenForm)
      BY <1>3, ListIsShown DEF TokInv, ListIsAwaited, TokTypes, ListsAreOfChain, ShowsChain, OfChain,
         OldIsOfChain, Tok!Key
<1>4. CASE c.key # Tok!Key(tokenForm)
      BY <1>4 DEF TokInv, ListIsAwaited, TokTypes, ListsAreOfChain, OldIsOfChain
<1> QED  BY <1>3, <1>4

\* The user's calls that change the form.
LEMMA UserChangesForm ==
    ASSUME TokInv, NEW token \in Tok!Token \cup {None}, Tok!SelectFrom(token)
    PROVE  TokInv'
<1>0. /\ tokenForm \in TokenForm /\ listTurns' \in Nat
      /\ UNCHANGED <<tokenLists, adding, misfiled, dropped>>
      BY DEF TokInv, TokTypes, Tok!SelectFrom, Tok!Turn
<1>1. PICK f : f = [tokenForm EXCEPT !.from = token]
      OBVIOUS
<1>2. f \in TokenForm /\ f.list = tokenForm.list /\ f.to = tokenForm.to
      /\ f.toChain = tokenForm.toChain
      BY <1>0, <1>1 DEF TokenForm
<1>3. CASE Tok!Keep(f)
      BY <1>0, <1>2, <1>3, FormIsKept DEF Tok!Keep, ShowsChain
<1>4. CASE token # None /\ Tok!Keep([f EXCEPT !.fromChain = token.chain])
  <2>1. PICK g : g = [f EXCEPT !.fromChain = token.chain]
        OBVIOUS
  <2> QED  BY <1>0, <1>2, <1>4, <2>1, FormIsKept DEF Tok!Keep, TokenForm, Tok!Token, ShowsChain
<1>5. CASE /\ token # None
           /\ Tok!UpdateToTokenList([f EXCEPT !.fromChain = token.chain, !.toChain = token.chain],
                                    Tok!Nothing)
  <2>1. PICK g : g = [f EXCEPT !.fromChain = token.chain, !.toChain = token.chain]
        OBVIOUS
  <2> QED  BY <1>0, <1>2, <1>5, <2>1, ListIsUpdated DEF Asked, TokenForm, Tok!Token
<1> QED  BY <1>1, <1>3, <1>4, <1>5 DEF Tok!SelectFrom

\* The update that was held back goes on.
LEMMA ThrottledListGoesOn ==
    ASSUME TokInv, Tok!ThrottlePasses
    PROVE  TokInv'
<1>3. CASE listThrottled = None
      BY <1>3 DEF TokInv, ListIsAwaited, TokTypes, Tok!ThrottlePasses, ListsAreOfChain, KeptIsOfChain,
         OldIsOfChain
<1>4. CASE listThrottled # None
      BY <1>4, ListIsFetched DEF TokInv, ListIsAwaited, ListsAreOfChain, KeptIsOfChain, TokTypes,
         Tok!ThrottlePasses
<1> QED  BY <1>3, <1>4

\* The answers: the list of the provider, or none.
LEMMA ListArrives ==
    ASSUME TokInv, NEW c \in listFetches, Tok!ListArrives(c)
    PROVE  TokInv'
<1> DEFINE list == Tok!ListOf(c.key[2])
           entry == [tokens |-> list, old |-> FALSE]
           key == Tok!Key(tokenForm)
<1>1. /\ c.key \in Pairs /\ c.key[2] \in Chains /\ tokenForm \in TokenForm
      /\ tokenLists \in [Pairs -> TokenLists \cup {None}] /\ misfiled \in BOOLEAN
      BY DEF TokInv, TokTypes, TokenFetch, Pairs
<1>2. key \in Pairs
      BY <1>1 DEF Tok!Key, TokenForm, Pairs
<1>3. list \in SUBSET Tok!Token /\ OfChain(list, c.key[2])
      BY <1>1 DEF Tok!ListOf, Tok!Token, Tok!Addresses, OfChain
<1>4. /\ listFetches' = listFetches \ {c} /\ tokenLists' = [tokenLists EXCEPT ![key] = entry]
      /\ misfiled' = (misfiled \/ c.key # key) /\ dropped' = (dropped \/ c.key # key)
      /\ IF c.key = key THEN Tok!ShowList(tokenForm, list, c.select)
         ELSE UNCHANGED <<tokenForm, updateToTokenListStatus, listSelecting>>
      /\ UNCHANGED <<listThrottled, adding, listTurns>>
      BY DEF Tok!ListArrives
<1> HIDE DEF list, key
<1>5. entry \in TokenLists /\ entry.tokens = list
      BY <1>3 DEF TokenLists
<1> HIDE DEF entry
<1>8. ASSUME ~misfiled' PROVE ~misfiled /\ KeptIsOfChain'
      BY <1>1, <1>3, <1>4, <1>5, <1>8 DEF KeptIsOfChain, TokInv, ListsAreOfChain
<1> QED  BY <1>1, <1>3, <1>4, <1>5, <1>8, ListEnds DEF key

\* A list that was not to be had.
LEMMA ListFails ==
    ASSUME TokInv, NEW c \in listFetches, Tok!ListFails(c)
    PROVE  TokInv'
<1> QED  BY ListEnds DEF TokInv, TokTypes, TokenFetch, ListsAreOfChain, OldIsOfChain, KeptIsOfChain,
            Tok!ListFails

\* What is kept grows old.
LEMMA ListsGrowOld ==
    ASSUME TokInv, Tok!SomeHoursPass
    PROVE  TokInv'
<1>2. /\ tokenLists' = [k \in Pairs |-> IF tokenLists[k] = None THEN None
                                        ELSE [tokenLists[k] EXCEPT !.old = TRUE]]
      /\ UNCHANGED <<tokenForm, updateToTokenListStatus, listThrottled, listFetches, listSelecting,
                     adding, misfiled, dropped, listTurns>>
      BY DEF Tok!SomeHoursPass, Pairs
<1>3. ASSUME NEW k \in Pairs
      PROVE  /\ tokenLists'[k] \in TokenLists \cup {None}
             /\ tokenLists'[k] # None => /\ tokenLists[k] # None
                                         /\ tokenLists'[k].tokens = tokenLists[k].tokens
  <2>2. CASE tokenLists[k] = None
        BY <1>2, <2>2
  <2>3. CASE tokenLists[k] # None
    <3>1. PICK e : e = tokenLists[k]
          OBVIOUS
    <3> QED  BY <1>2, <2>3, <3>1 DEF TokenLists, TokTypes, TokInv
  <2> QED  BY <2>2, <2>3
<1> QED  BY <1>2, <1>3 DEF TokInv, ListIsAwaited, TokTypes, ListsAreOfChain, OldIsOfChain, KeptIsOfChain

\* A token that was asked for by its address joins the list and what is kept.
LEMMA TokenJoins ==
    ASSUME TokInv, Tok!TokenArrives
    PROVE  TokInv'
<1>1. TokTypes /\ ListsAreOfChain /\ ListIsAwaited
      BY DEF TokInv
<1> DEFINE key == Tok!Key(tokenForm)
           entry == IF tokenLists[key] = None THEN None
                   ELSE [tokenLists[key] EXCEPT !.tokens = tokenLists[key].tokens \cup {adding}]
<1>2. /\ adding # None /\ adding' = None
      /\ tokenForm' = [tokenForm EXCEPT !.list = tokenForm.list \cup {adding}]
      /\ tokenLists' = [tokenLists EXCEPT ![key] = entry]
      /\ misfiled' = (misfiled \/ adding.chain # tokenForm.toChain)
      /\ UNCHANGED <<updateToTokenListStatus, listThrottled, listFetches, listSelecting, dropped,
                     listTurns>>
      BY DEF Tok!TokenArrives
<1>3. /\ adding \in Tok!Token /\ tokenForm \in TokenForm /\ misfiled \in BOOLEAN
      /\ tokenLists \in [Pairs -> TokenLists \cup {None}]
      BY <1>1, <1>2 DEF TokTypes
<1>4. key \in Pairs /\ key[2] = tokenForm.toChain
      BY <1>3 DEF Tok!Key, TokenForm, Pairs
<1> HIDE DEF key
<1>6. /\ entry \in TokenLists \cup {None}
      /\ entry # None => tokenLists[key] # None /\ entry.tokens = tokenLists[key].tokens \cup {adding}
  <2>1. CASE tokenLists[key] = None
        BY <2>1
  <2>2. CASE tokenLists[key] # None
    <3>1. PICK e : e = tokenLists[key]
          OBVIOUS
    <3>5. PICK tokens \in SUBSET Tok!Token : tokens = e.tokens \cup {adding}
          BY <1>3, <1>4, <2>2, <3>1 DEF TokenLists
    <3> QED  BY <1>3, <1>4, <2>2, <3>1, <3>5 DEF TokenLists
  <2> QED  BY <2>1, <2>2
<1> HIDE DEF entry
<1>7. tokenLists' \in [Pairs -> TokenLists \cup {None}]
      /\ \A k \in Pairs : tokenLists'[k] = IF k = key THEN entry ELSE tokenLists[k]
      BY <1>2, <1>3, <1>6
<1>9. ASSUME ~misfiled' PROVE KeptIsOfChain' /\ OldIsOfChain'
                              /\ (listThrottled' = None => ShowsChain(tokenForm'))
  <2>1. ~misfiled /\ adding.chain = tokenForm.toChain
        BY <1>2, <1>9
  <2>2. KeptIsOfChain /\ OldIsOfChain /\ (listThrottled = None => ShowsChain(tokenForm))
        BY <1>1, <2>1 DEF ListsAreOfChain
  <2>3. ASSUME NEW k \in Pairs, tokenLists'[k] # None
        PROVE  OfChain(tokenLists'[k].tokens, k[2])
    <3>1. CASE k = key
          BY <1>4, <1>6, <1>7, <2>1, <2>2, <2>3, <3>1 DEF OfChain, KeptIsOfChain
    <3>2. CASE k # key
          BY <1>7, <2>2, <2>3, <3>2 DEF KeptIsOfChain
    <3> QED  BY <3>1, <3>2
  <2> QED  BY <1>2, <1>3, <2>1, <2>2, <2>3 DEF OldIsOfChain, ShowsChain, OfChain, TokenForm, KeptIsOfChain
<1> QED  BY <1>1, <1>2, <1>3, <1>7, <1>9 DEF TokInv, ListsAreOfChain, ListIsAwaited, TokTypes, TokenForm

\* The other calls of the user.
LEMMA UserChangesChain ==
    ASSUME TokInv, NEW chain \in Chains, Tok!SelectToChain(chain)
    PROVE  TokInv'
<1>1. PICK g : g = [tokenForm EXCEPT !.toChain = chain]
      OBVIOUS
<1> QED  BY <1>1, ListIsUpdated DEF TokInv, TokTypes, Tok!SelectToChain, Tok!Turn, TokenForm, Asked

\* The user chooses a token.
LEMMA UserSelects ==
    ASSUME TokInv, NEW address, Tok!SelectTo(address)
    PROVE  TokInv'
<1> DEFINE found == Tok!InList(tokenForm.list, address)
<1>1. PICK to : to = CHOOSE t \in found : TRUE
      OBVIOUS
<1>2. PICK g : g = [tokenForm EXCEPT !.to = to]
      OBVIOUS
<1>3. /\ tokenForm \in TokenForm /\ listTurns' \in Nat /\ found # {} /\ tokenForm' = g
      /\ UNCHANGED <<tokenLists, updateToTokenListStatus, listThrottled, listFetches, listSelecting,
                     adding, misfiled, dropped>>
      BY <1>1, <1>2 DEF TokInv, TokTypes, Tok!SelectTo, Tok!Turn, Tok!Keep
<1>4. to \in found /\ found \subseteq tokenForm.list
      BY <1>1, <1>3 DEF Tok!InList
<1> HIDE DEF found
<1> QED  BY <1>2, <1>3, <1>4, FormIsKept DEF TokenForm, ShowsChain, OfChain

\* The user turns the swap round.
LEMMA UserSwitches ==
    ASSUME TokInv, Tok!SwitchFromAndToTokens
    PROVE  TokInv'
<1>0. tokenForm \in TokenForm /\ listTurns' \in Nat
      BY DEF TokInv, TokTypes, Tok!SwitchFromAndToTokens, Tok!Turn
<1> DEFINE paid == IF tokenForm.from = None THEN Tok!Nothing ELSE tokenForm.from.address
           found == Tok!InList(tokenForm.list, paid)
           got == IF tokenForm.to = None THEN None
                  ELSE [tokenForm.to EXCEPT !.chain = tokenForm.toChain]
           to == IF tokenForm.to = None /\ found # {} THEN CHOOSE t \in found : TRUE
                 ELSE tokenForm.to
           g == [tokenForm EXCEPT !.from = got, !.fromChain = tokenForm.toChain,
                                  !.toChain = tokenForm.fromChain, !.to = to]
<1>4. Tok!UpdateToTokenList(g, paid) /\ UNCHANGED <<tokenLists, adding, misfiled, dropped>>
      BY DEF Tok!SwitchFromAndToTokens
<1>5. found \subseteq tokenForm.list /\ (found # {} => (CHOOSE t \in found : TRUE) \in found)
      BY DEF Tok!InList
<1>6. paid \in Asked
      BY <1>0 DEF Asked, TokenForm, Tok!Token
<1> HIDE DEF paid, found
<1>7. to \in Tok!Token \cup {None}
      BY <1>0, <1>5 DEF TokenForm
<1>8. got \in Tok!Token \cup {None}
  <2>1. CASE tokenForm.to = None
        BY <2>1
  <2>2. CASE tokenForm.to # None
    <3>1. PICK t \in Tok!Token, chain \in Chains : t = tokenForm.to /\ chain = tokenForm.toChain
          BY <1>0, <2>2 DEF TokenForm
    <3> QED  BY <2>2, <3>1 DEF Tok!Token
  <2> QED  BY <2>1, <2>2
<1> HIDE DEF got, to
<1>9. g \in TokenForm
  <2>1. PICK from \in Chains, chain \in Chains : from = tokenForm.fromChain /\ chain = tokenForm.toChain
        BY <1>0 DEF TokenForm
  <2> QED  BY <1>0, <1>7, <1>8, <2>1 DEF TokenForm
<1> QED  BY <1>0, <1>4, <1>6, <1>9, ListIsUpdated

\* The user leaves the form.
LEMMA UserResets ==
    ASSUME TokInv, Tok!ResetForm \/ Tok!Reset
    PROVE  TokInv'
<1>0. tokenForm \in TokenForm /\ listTurns' \in Nat
  <2>2. listTurns' = listTurns + 1
        BY DEF Tok!ResetForm, Tok!Reset, Tok!Turn
  <2> QED  BY <2>2 DEF TokInv, TokTypes
<1>1. CASE Tok!ResetForm
  <2>1. PICK g : g = [tokenForm EXCEPT !.to = None]
        OBVIOUS
  <2> QED  BY <1>0, <1>1, <2>1, FormIsKept DEF Tok!ResetForm, Tok!Keep, TokenForm, ShowsChain
<1>2. CASE Tok!Reset
  <2>1. PICK home \in Chains : 
          tokenForm' = [tokenForm EXCEPT !.from = None, !.fromChain = home, !.toChain = home,
                                         !.to = None, !.list = {}]
        BY <1>2 DEF Tok!Reset
  <2>2. PICK g : g = tokenForm'
        OBVIOUS
  <2>4. ShowsChain(g)
        BY <1>0, <2>1, <2>2 DEF ShowsChain, OfChain, TokenForm
  <2> QED  BY <1>0, <1>2, <2>1, <2>2, <2>4, FormIsKept DEF TokenForm, Tok!Reset
<1> QED  BY <1>1, <1>2

\* The user asks for a token by its address.
LEMMA UserAddsToken ==
    ASSUME TokInv, NEW address \in Tok!Addresses, Tok!AddToTokenByAddress(address)
    PROVE  TokInv'
<1>4. TokTypes'
      BY DEF TokTypes, TokenForm, Tok!Token, TokInv, Tok!AddToTokenByAddress, Tok!Turn
<1> QED  BY <1>4 DEF TokInv, ListIsAwaited, ListsAreOfChain, KeptIsOfChain, OldIsOfChain,
            Tok!AddToTokenByAddress, Tok!Turn

\* Every step keeps the invariant of the lists.
LEMMA TokInvNext ==
    ASSUME TokInv, [Tok!Next]_tokVars
    PROVE  TokInv'
<1>0. TokTypes /\ ListsAreOfChain /\ ListIsAwaited
      BY DEF TokInv
<1>1. ASSUME UNCHANGED <<tokenForm, tokenLists, listThrottled, listFetches, misfiled, listTurns>>,
             adding' = adding \/ adding' = None, listSelecting' \in Nat, ListIsAwaited'
      PROVE  TokInv'
      BY <1>0, <1>1 DEF TokInv, TokTypes, ListsAreOfChain, KeptIsOfChain, OldIsOfChain
<1>2. CASE Tok!QuoteEnds
      BY <1>0, <1>1, <1>2 DEF Tok!QuoteEnds, ListIsAwaited, TokTypes
<1>3. CASE Tok!TokenFails
      BY <1>0, <1>1, <1>3 DEF Tok!TokenFails, ListIsAwaited, TokTypes
<1>4. CASE UNCHANGED tokVars
      BY <1>0, <1>1, <1>4 DEF tokVars, ListIsAwaited, TokTypes
<1>5. ASSUME NEW token \in Tok!Token \cup {None},
             Tok!SelectFrom(token) \/ Tok!UpdatePortfolioTokenList(token)
      PROVE  TokInv'
      BY <1>5, UserChangesForm DEF Tok!UpdatePortfolioTokenList
<1>6. CASE Tok!Next
  <2>1. CASE \E c \in listFetches : Tok!ListArrives(c) \/ Tok!ListFails(c)
        BY <2>1, ListArrives, ListFails
  <2>2. CASE \E chain \in Chains : Tok!SelectToChain(chain)
        BY <2>2, UserChangesChain
  <2>3. CASE \E address \in Tok!Addresses : Tok!SelectTo(address) \/ Tok!AddToTokenByAddress(address)
        BY <2>3, UserSelects, UserAddsToken
  <2> QED  BY <1>2, <1>3, <1>5, <1>6, <2>1, <2>2, <2>3, ThrottledListGoesOn, ListsGrowOld,
              UserSwitches, UserResets, TokenJoins DEF Tok!Next
<1> QED  BY <1>4, <1>6
\* Besides what TokInv says of the lists: every update that the user caused is held back, fetched
\* or being quoted, so that there are no more of these than calls of the user.
ListsPending == Cardinality(listFetches) + listSelecting + (IF listThrottled = None THEN 0 ELSE 1)
ListFlags ==
    /\ updateToTokenListStatus \in {"INITIAL", "LOADING"} /\ listFailed \in BOOLEAN
    /\ listRecent \in BOOLEAN /\ dropped \in BOOLEAN /\ listTurns <= ListTurns
ListCounts == IsFiniteSet(listFetches) /\ (\A c \in listFetches : c.n <= listTurns) /\ ListsPending <= listTurns
ListTypes == ListFlags /\ ListCounts

\* At first nothing is pending.
LEMMA ListTypesInit == ASSUME Tok!Init PROVE ListTypes
<1>1. /\ listFetches = {} /\ listSelecting = 0 /\ listThrottled = None /\ listTurns = 0
      /\ updateToTokenListStatus = "INITIAL" /\ listFailed = FALSE /\ listRecent = FALSE /\ dropped = FALSE
      BY DEF Tok!Init
<1>3. listTurns <= ListTurns
      BY <1>1, BoundsAssumed
<1>5. ListFlags
      BY <1>1, <1>3 DEF ListFlags
<1> QED  BY <1>1, <1>5, FS_EmptySet DEF ListTypes, ListCounts, ListsPending

\* Numbers of what is pending.
LEMMA PendingIs ==
    ASSUME TokInv, ListTypes
    PROVE  \E k \in Nat, held \in 0..1 :
              /\ k = Cardinality(listFetches) /\ held = (IF listThrottled = None THEN 0 ELSE 1)
              /\ k + listSelecting + held <= listTurns
<1>2. PICK k \in Nat : k = Cardinality(listFetches)
      BY FS_CardinalityType DEF ListTypes, ListCounts
<1>3. PICK held \in 0..1 : held = (IF listThrottled = None THEN 0 ELSE 1)
      OBVIOUS
<1> QED  BY <1>2, <1>3 DEF ListTypes, ListCounts, ListsPending

\* The steps in which nothing new is pending.
LEMMA PendingStays ==
    ASSUME TokInv, ListTypes, UNCHANGED <<listFetches, listThrottled>>, ListFlags',
           listSelecting' \in Nat, listSelecting' <= listSelecting,
           listTurns' \in {listTurns, listTurns + 1}
    PROVE  ListTypes'
<1>2. PICK k \in Nat, held \in 0..1 :
              /\ k = Cardinality(listFetches) /\ held = (IF listThrottled = None THEN 0 ELSE 1)
              /\ k + listSelecting + held <= listTurns
      BY PendingIs
<1> QED  BY <1>2 DEF ListTypes, ListCounts, ListsPending, TokInv, TokTypes, TokenFetch

\* A list that is shown makes one more to be quoted at most.
LEMMA ShownCounts ==
    ASSUME NEW f, NEW list, NEW select, Tok!ShowList(f, list, select), listSelecting \in Nat
    PROVE  /\ updateToTokenListStatus' \in {"INITIAL", "LOADING"}
           /\ listSelecting' \in {listSelecting, listSelecting + 1}
BY DEF Tok!ShowList

\* A list that is fetched, or shown from what is kept, makes one more pending.
LEMMA FetchedCounts ==
    ASSUME TokInv, ListTypes, NEW f, NEW select, Tok!FetchList(f, select), NEW k \in Nat,
           k = Cardinality(listFetches)
    PROVE  /\ updateToTokenListStatus' \in {"INITIAL", "LOADING"} /\ listFailed' = FALSE /\ listRecent' = TRUE
           /\ \A c \in listFetches' : c.n \in Nat /\ c.n <= listTurns
           /\ IsFiniteSet(listFetches')
           /\ \E m \in Nat : /\ m = Cardinality(listFetches') /\ listSelecting' \in Nat
                             /\ m + listSelecting' <= k + listSelecting + 1
<1>1. listTurns \in Nat /\ listSelecting \in Nat /\ IsFiniteSet(listFetches)
      /\ \A c \in listFetches : c.n \in Nat /\ c.n <= listTurns
      BY DEF TokInv, TokTypes, TokenFetch, ListTypes, ListCounts
<1>3. CASE Tok!Fresh(f)
  <2>1. PICK g, list : Tok!ShowList(g, list, select) /\ listFetches' = listFetches
        BY <1>3 DEF Tok!FetchList
  <2> QED  BY <1>1, <2>1, ShownCounts DEF Tok!FetchList
<1>4. CASE ~Tok!Fresh(f)
  <2>1. PICK c : /\ listFetches' = listFetches \cup {c} /\ c.n = listTurns
                 /\ updateToTokenListStatus' = "LOADING" /\ listSelecting' = listSelecting
    <3>1. PICK before : before = IF tokenLists[Tok!Key(f)] = None THEN {} ELSE tokenLists[Tok!Key(f)].tokens
          OBVIOUS
    <3>2. PICK c : c = [n |-> listTurns, key |-> Tok!Key(f), select |-> select, before |-> before]
          OBVIOUS
    <3> QED  BY <1>4, <3>1, <3>2 DEF Tok!FetchList
  <2>2. IsFiniteSet(listFetches') /\ Cardinality(listFetches') \in {k, k + 1}
        BY <1>1, <2>1, FS_AddElement
  <2>3. PICK m \in Nat : m = Cardinality(listFetches') /\ m <= k + 1
        BY <2>2
  <2>5. \A d \in listFetches' : d.n \in Nat /\ d.n <= listTurns
        BY <1>1, <2>1
  <2> QED  BY <1>1, <2>1, <2>2, <2>3, <2>5 DEF Tok!FetchList
<1> QED  BY <1>3, <1>4

\* A call of the user that updates the list.
LEMMA UpdateCounts ==
    ASSUME TokInv, ListTypes, NEW f, NEW select, Tok!UpdateToTokenList(f, select), Tok!Turn, dropped' = dropped
    PROVE  ListTypes'
<1>1. /\ listTurns \in Nat /\ listTurns' = listTurns + 1 /\ listTurns' <= ListTurns /\ listSelecting \in Nat
      /\ \A c \in listFetches : c.n \in Nat /\ c.n <= listTurns
      BY BoundsAssumed DEF ListTypes, ListCounts, TokInv, TokTypes, TokenFetch, Tok!Turn
<1>2. PICK k \in Nat, held \in 0..1 :
              /\ k = Cardinality(listFetches) /\ held = (IF listThrottled = None THEN 0 ELSE 1)
              /\ k + listSelecting + held <= listTurns
      BY PendingIs
<1>3. CASE listRecent
  <2>2. PICK more \in 0..1 : more = (IF listThrottled' = None THEN 0 ELSE 1)
        OBVIOUS
  <2> QED  BY <1>1, <1>2, <1>3, <2>2 DEF ListTypes, ListFlags, ListCounts, Tok!UpdateToTokenList,
              ListsPending
<1>4. CASE ~listRecent
  <2>1. Tok!FetchList(f, select) /\ listThrottled' = listThrottled
        BY <1>4 DEF Tok!UpdateToTokenList
  <2>2. /\ updateToTokenListStatus' \in {"INITIAL", "LOADING"} /\ listFailed' = FALSE /\ listRecent' = TRUE
        /\ \A c \in listFetches' : c.n \in Nat /\ c.n <= listTurns
        /\ IsFiniteSet(listFetches')
        BY <1>2, <2>1, FetchedCounts
  <2>3. PICK m \in Nat : /\ m = Cardinality(listFetches') /\ listSelecting' \in Nat
                         /\ m + listSelecting' <= k + listSelecting + 1
        BY <1>2, <2>1, FetchedCounts
  <2>8. ListFlags'
        BY <1>1, <2>2 DEF ListTypes, ListFlags
  <2> QED  BY <1>1, <1>2, <2>1, <2>2, <2>3, <2>8 DEF ListTypes, ListCounts, ListsPending
<1> QED  BY <1>3, <1>4

\* A call of the user that leaves the list as it is.
LEMMA KeptCounts ==
    ASSUME TokInv, ListTypes, UNCHANGED <<listFetches, listThrottled, listSelecting>>, Tok!Turn,
           updateToTokenListStatus' = updateToTokenListStatus, listFailed' \in {listFailed, FALSE},
           UNCHANGED <<listRecent, dropped>>
    PROVE  ListTypes'
<1>2. listTurns' <= ListTurns
      BY BoundsAssumed DEF Tok!Turn, TokInv, TokTypes
<1>3. ListFlags'
      BY <1>2 DEF ListTypes, ListFlags
<1> QED  BY <1>3, PendingStays, BoundsAssumed DEF Tok!Turn, TokInv, TokTypes

\* A list is there at last.
LEMMA EndCounts ==
    ASSUME TokInv, ListTypes, NEW c \in listFetches, listFetches' = listFetches \ {c}, NEW list,
           \/ Tok!ShowList(tokenForm, list, c.select)
           \/ UNCHANGED <<updateToTokenListStatus, listSelecting>>,
           listFailed' \in BOOLEAN, dropped' \in BOOLEAN,
           UNCHANGED <<listRecent, listThrottled, listTurns>>
    PROVE  ListTypes'
<1>1. listTurns \in Nat /\ listSelecting \in Nat /\ IsFiniteSet(listFetches)
      /\ \A d \in listFetches : d.n <= listTurns
      BY DEF TokInv, TokTypes, ListTypes, ListCounts
<1>2. PICK k \in Nat, held \in 0..1 :
              /\ k = Cardinality(listFetches) /\ held = (IF listThrottled = None THEN 0 ELSE 1)
              /\ k + listSelecting + held <= listTurns
      BY PendingIs
<1>4. /\ updateToTokenListStatus' \in {"INITIAL", "LOADING"}
      /\ listSelecting' \in {listSelecting, listSelecting + 1}
  <2>1. CASE Tok!ShowList(tokenForm, list, c.select)
        BY <1>1, <2>1, ShownCounts
  <2>2. CASE UNCHANGED <<updateToTokenListStatus, listSelecting>>
        BY <2>2 DEF ListTypes, ListFlags
  <2> QED  BY <2>1, <2>2
<1>5. k - 1 + listSelecting' + held <= listTurns
      BY <1>1, <1>2, <1>4
<1>7. ListCounts'
      BY <1>1, <1>2, <1>5, FS_RemoveElement DEF ListCounts, ListsPending
<1> QED  BY <1>4, <1>7 DEF ListTypes, ListFlags

\* The update that was held back goes on.
LEMMA ThrottleCounts == ASSUME TokInv, ListTypes, Tok!ThrottlePasses PROVE ListTypes'
<1>1. listTurns \in Nat /\ listSelecting \in Nat /\ UNCHANGED <<dropped, listTurns>>
      BY DEF TokInv, TokTypes, Tok!ThrottlePasses
<1>2. CASE listThrottled = None
  <2>2. ListFlags'
        BY <1>1, <1>2 DEF ListTypes, ListFlags, Tok!ThrottlePasses
  <2> QED  BY <1>1, <1>2, <2>2, PendingStays DEF Tok!ThrottlePasses
<1>3. CASE listThrottled # None
  <2>1. listThrottled' = None /\ Tok!FetchList(tokenForm, listThrottled)
        BY <1>3 DEF Tok!ThrottlePasses
  <2>2. PICK k \in Nat, held \in 0..1 :
              /\ k = Cardinality(listFetches) /\ held = (IF listThrottled = None THEN 0 ELSE 1)
              /\ k + listSelecting + held <= listTurns
        BY PendingIs
  <2>4. PICK m \in Nat : /\ m = Cardinality(listFetches') /\ listSelecting' \in Nat
                         /\ m + listSelecting' <= k + listSelecting + 1
        BY <2>1, <2>2, FetchedCounts
  <2>7. ListsPending' <= listTurns'
        BY <1>1, <1>3, <2>1, <2>2, <2>4 DEF ListsPending
  <2> QED  BY <1>1, <2>1, <2>2, <2>7, FetchedCounts DEF ListTypes, ListFlags, ListCounts
<1> QED  BY <1>2, <1>3

\* Every step keeps the types.
LEMMA ListTypesNext == ASSUME TokInv, ListTypes, [Tok!Next]_tokVars PROVE ListTypes'
<1>1. ASSUME UNCHANGED <<listFetches, listThrottled, listSelecting, updateToTokenListStatus, listFailed,
                         listRecent, dropped, listTurns>>
      PROVE  ListTypes'
      BY <1>1 DEF ListTypes, ListFlags, ListCounts, ListsPending
<1>2. CASE Tok!QuoteEnds
      BY <1>2, PendingStays DEF Tok!QuoteEnds, ListFlags, TokInv, TokTypes, ListTypes
<1>3. CASE Tok!SomeHoursPass \/ Tok!TokenArrives \/ Tok!TokenFails \/ UNCHANGED tokVars
      BY <1>1, <1>3 DEF Tok!SomeHoursPass, Tok!TokenArrives, Tok!TokenFails, tokVars
<1>4. ASSUME NEW f, NEW select, Tok!UpdateToTokenList(f, select), Tok!Turn, dropped' = dropped
      PROVE  ListTypes'
      BY <1>4, UpdateCounts
<1>5. ASSUME NEW f, Tok!Keep(f), Tok!Turn, dropped' = dropped
      PROVE  ListTypes'
      BY <1>5, KeptCounts DEF Tok!Keep
<1>6. ASSUME NEW token, Tok!SelectFrom(token)
      PROVE  ListTypes'
      BY <1>4, <1>5, <1>6 DEF Tok!SelectFrom
<1>7. ASSUME NEW token, Tok!UpdatePortfolioTokenList(token)
      PROVE  ListTypes'
      BY <1>6, <1>7 DEF Tok!UpdatePortfolioTokenList
<1>8. ASSUME NEW chain, Tok!SelectToChain(chain) PROVE ListTypes'
      BY <1>4, <1>8 DEF Tok!SelectToChain
<1>9. ASSUME NEW address, Tok!SelectTo(address) PROVE ListTypes'
  <2>1. PICK f : Tok!Keep(f)
        BY <1>9 DEF Tok!SelectTo
  <2> QED  BY <1>5, <1>9, <2>1 DEF Tok!SelectTo
<1>10. CASE Tok!SwitchFromAndToTokens
       BY <1>4, <1>10 DEF Tok!SwitchFromAndToTokens
<1>11. CASE Tok!ResetForm
       BY <1>5, <1>11 DEF Tok!ResetForm
<1>12. CASE Tok!Reset
      BY <1>12, KeptCounts DEF Tok!Reset
<1>13. ASSUME NEW address, Tok!AddToTokenByAddress(address) PROVE ListTypes'
      BY <1>13, KeptCounts DEF Tok!AddToTokenByAddress
<1>14. ASSUME NEW c \in listFetches, Tok!ListArrives(c) PROVE ListTypes'
       BY <1>14, EndCounts DEF Tok!ListArrives, ListFlags, TokInv, TokTypes, ListTypes
<1>15. ASSUME NEW c \in listFetches, Tok!ListFails(c) PROVE ListTypes'
       BY <1>15, EndCounts DEF Tok!ListFails
<1> QED  BY <1>2, <1>3, <1>6, <1>7, <1>8, <1>9, <1>10, <1>11, <1>12, <1>13, <1>14, <1>15, ThrottleCounts
         DEF Tok!Next

\* The types that the module states.
LEMMA TokTypeOK == ASSUME TokInv, ListTypes PROVE Tok!TypeOK
<1>1. TokTypes /\ ListTypes /\ ListTurns \in Nat
      BY BoundsAssumed DEF TokInv
<1>2. listTurns \in 0..ListTurns /\ listSelecting \in 0..ListTurns
  <2>1. PICK k \in Nat, held \in 0..1 : k + listSelecting + held <= listTurns
        BY PendingIs
  <2> QED  BY <1>1, <2>1 DEF TokTypes, ListTypes, ListFlags
<1>3. listFetches \subseteq [n : 0..ListTurns, key : Chains \X Chains, select : Tok!Addresses \cup {Tok!Nothing},
                             before : SUBSET Tok!Token]
  <2>1. ASSUME NEW c \in listFetches
        PROVE  c \in [n : 0..ListTurns, key : Chains \X Chains, select : Tok!Addresses \cup {Tok!Nothing},
                      before : SUBSET Tok!Token]
        BY <1>1 DEF TokenFetch, Asked, Pairs, TokTypes, ListTypes, ListFlags, ListCounts
  <2> QED  BY <2>1
<1> QED  BY <1>1, <1>2, <1>3 DEF Tok!TypeOK, TokTypes, ListTypes, ListFlags, Asked, TokenForm, TokenLists
-----------------------------------------------------------------------------
(* swapAndBridge.ts: the routes.  An operation has one call or two, and    *)
(* what they tell is unfolded first.                                       *)

\* What an operation of one call tells its route.
LEMMA ToldOfOne ==
    ASSUME NEW route, NEW r, NEW o, NEW status, NEW c, o.calls = <<c>>
    PROVE  Route!Told(route, r \in Swaps, o, status) = Route!TellCall(route, r \in Swaps, o.attempt, status, c)
<1> DEFINE Tc(so, call) == Route!TellCall(so, r \in Swaps, o.attempt, status, call)
           Step(f, n) == IF n = 0 THEN route ELSE Tc(f[n - 1], o.calls[n])
           F == CHOOSE f : f = [n \in 0..Len(o.calls) |-> Step(f, n)]
           one == Tc(route, c)
           g == [n \in {0, 1} |-> IF n = 0 THEN route ELSE one]
<1>1. Route!Told(route, r \in Swaps, o, status) = F[Len(o.calls)]
      BY DEF Route!Told
<1>2. Len(o.calls) = 1 /\ 0..Len(o.calls) = {0, 1} /\ o.calls[1] = c
      OBVIOUS
<1> HIDE DEF F, Tc
<1>4. F = [n \in {0, 1} |-> Step(F, n)]
      BY <1>2 DEF F
<1>5. F[0] = route
      BY ONLY <1>4
<1>6. F[1] = Tc(F[0], c)
      BY ONLY <1>2, <1>4
<1> QED  BY <1>1, <1>2, <1>5, <1>6 DEF Tc

\* What one of two calls tells it: the second is told to what the first has made of it.
LEMMA ToldOfTwo ==
    ASSUME NEW route, NEW r, NEW o, NEW status, NEW c, NEW d, o.calls = <<c, d>>
    PROVE  Route!Told(route, r \in Swaps, o, status) =
             Route!TellCall(Route!TellCall(route, r \in Swaps, o.attempt, status, c),
                            r \in Swaps, o.attempt, status, d)
<1> DEFINE Tc(so, call) == Route!TellCall(so, r \in Swaps, o.attempt, status, call)
           Step(f, n) == IF n = 0 THEN route ELSE Tc(f[n - 1], o.calls[n])
           F == CHOOSE f : f = [n \in 0..Len(o.calls) |-> Step(f, n)]
           one == Tc(route, c)
           g == [n \in {0, 1, 2} |-> IF n = 0 THEN route ELSE IF n = 1 THEN one ELSE Tc(one, d)]
<1>1. Route!Told(route, r \in Swaps, o, status) = F[Len(o.calls)]
      BY DEF Route!Told
<1>2. Len(o.calls) = 2 /\ 0..Len(o.calls) = {0, 1, 2} /\ o.calls[1] = c /\ o.calls[2] = d
      OBVIOUS
<1> HIDE DEF F, Tc
<1>4. F = [n \in {0, 1, 2} |-> Step(F, n)]
      BY <1>2 DEF F
<1>5. F[0] = route
      BY ONLY <1>4
<1>6. F[1] = Tc(F[0], c)
      BY ONLY <1>2, <1>4
<1>7. F[2] = Tc(F[1], d)
      BY ONLY <1>2, <1>4
<1> QED  BY <1>1, <1>2, <1>5, <1>6, <1>7 DEF Tc

Settled == {"success", "failure"}
Out == {"sent", "recorded", "unknown"}
Swapping == {<<"swap">>, <<"approval", "swap">>}
RouteOp == [at : {"none", "building", "signing", "sent", "recorded", "unknown"},
            calls : Swapping \cup {<<>>, <<"approval">>}, mined : {"no", "success", "failure"},
            known : {"none", "broadcast", "success", "failure"}, attempt : Nat]

\* The end of an operation was told to its route, unless a restart came between.
ToldEnd(r, o, tell, un) == o.at = "recorded" /\ o.known \in Settled /\ r \notin tell \cup un

\* An operation is mined after it was sent, and what the history knows of it is what was mined.
OpIsSound(o) ==
    /\ o.at \in {"none", "building"} => o.calls = <<>>
    /\ o.at \in {"none", "building", "signing"} => o.mined = "no"
    /\ o.at # "recorded" <=> o.known = "none"
    /\ o.at \in Out \cup {"signing"} => o.calls # <<>>
    /\ o.known \in Settled => o.known = o.mined

\* A route shows what its operation came to, and has the hash of the operation that it shows.
RouteIsSound(r, a, o, tell, un) ==
    /\ o.at \notin Out => a.status \in {"ready", "failed"}
    /\ o.at = "signing" => a.hash = None
    /\ o.at \in Out /\ o.calls \in Swapping => a.hash = o.attempt
    /\ o.at \in Out /\ o.calls \notin Swapping => a.hash = None
    /\ ToldEnd(r, o, tell, un) /\ o.calls \notin Swapping => a.status = "ready"
    /\ ToldEnd(r, o, tell, un) /\ o.calls \in Swapping /\ o.known = "failure" => a.status = "failed"
    /\ ToldEnd(r, o, tell, un) /\ o.calls \in Swapping /\ o.known = "success" =>
           \/ a.status = "completed"
           \/ r \notin Swaps /\ a.status \in {"in-progress", "refunded"}
    /\ o.at \in Out /\ ~ToldEnd(r, o, tell, un) /\ o.calls \notin Swapping =>
           a.status = "waiting-approval-to-resolve"
    /\ o.at \in Out /\ ~ToldEnd(r, o, tell, un) /\ o.calls \in Swapping =>
           \/ a.status = "in-progress"
           \/ a.status = "completed" /\ r \in Swaps
           \/ a.status \in {"completed", "refunded"} /\ o.mined = "success"

\* Only a route that is being signed for the first time is not saved as it is.
SavedIsSound(a, s, o) == s = a \/ (s = None /\ a = Route!Fresh /\ o.at = "signing")

\* Who is still to be told, who will not be, and whose answers are awaited.
MarksAreSound(r, o, tell, un, polled) ==
    /\ r \in tell => o.at = "recorded" /\ o.known \in Settled /\ r \notin un
    /\ r \in un => o.at = "unknown" \/ o.known \in Settled
    /\ \A n : <<r, n>> \in polled =>
          /\ r \notin Swaps /\ n \in Nat /\ n <= o.attempt
          /\ n = o.attempt => o.at # "signing" /\ (o.at \in Out => o.calls \in Swapping)

RouteAt(r, a, s, o, tell, un, polled) ==
    /\ OpIsSound(o) /\ SavedIsSound(a, s, o) /\ MarksAreSound(r, o, tell, un, polled)
    /\ a # None => RouteIsSound(r, a, o, tell, un)
RouteInv ==
    /\ active \in [Routes -> ActiveRoute \cup {None}]
    /\ savedRoutes \in [Routes -> ActiveRoute \cup {None}]
    /\ routeOps \in [Routes -> RouteOp]
    /\ \A r \in Routes :
          RouteAt(r, active[r], savedRoutes[r], routeOps[r], tellings, untold, routePolls)

\* Which operations have the transaction of the route.
LEMMA SwapIsCalled ==
    ASSUME NEW batch \in Swapping \cup {<<>>, <<"approval">>}
    PROVE  "swap" \in Route!Range(batch) <=> batch \in Swapping
<1>1. CASE batch = <<>>
      BY <1>1 DEF Route!Range, Swapping
<1>2. CASE batch = <<"approval">>
      BY <1>2 DEF Route!Range, Swapping
<1>3. CASE batch = <<"swap">>
      BY <1>3 DEF Route!Range, Swapping
<1>4. CASE batch = <<"approval", "swap">>
      BY <1>4 DEF Route!Range, Swapping
<1> QED  BY <1>1, <1>2, <1>3, <1>4 DEF Swapping

\* The invariant implies what the screens' runs check of the routes.
LEMMA RouteKeepsPromises ==
    ASSUME RouteInv
    PROVE  Route!RoutesShowTheirEnd
<1> SUFFICES ASSUME NEW r \in Routes, active[r] # None
             PROVE  /\ r \notin Swaps /\ active[r].status \in {"completed", "refunded"}
                           => routeOps[r].mined = "success"
                    /\ routeOps[r].at = "recorded" /\ routeOps[r].known \in Route!Settled
                       /\ r \notin tellings \cup untold => active[r].status \in Route!Shown(r)
                    /\ active[r].status = "in-progress" =>
                           active[r].hash # None /\ active[r].hash = routeOps[r].attempt
                    /\ savedRoutes[r] = active[r] \/ active[r].status = "ready"
      BY DEF Route!RoutesShowTheirEnd
<1> DEFINE a == active[r]
           o == routeOps[r]
<1>1. /\ OpIsSound(o) /\ SavedIsSound(a, savedRoutes[r], o)
      /\ RouteIsSound(r, a, o, tellings, untold) /\ o \in RouteOp
      BY DEF RouteInv, RouteAt
<1> HIDE DEF a, o
<1>4. r \notin Swaps /\ a.status \in {"completed", "refunded"} => o.mined = "success"
      BY <1>1 DEF OpIsSound, RouteIsSound, ToldEnd, Settled, Out
<1>5. o.at = "recorded" /\ o.known \in Settled /\ r \notin tellings \cup untold
         => a.status \in IF "swap" \notin Route!Range(o.calls) THEN {"ready"}
                         ELSE IF o.known = "failure" THEN {"failed"}
                         ELSE IF r \in Swaps THEN {"completed"}
                         ELSE {"in-progress", "completed", "refunded"}
      BY <1>1, SwapIsCalled DEF RouteIsSound, ToldEnd, Settled, RouteOp
<1>6. a.status = "in-progress" => a.hash # None /\ a.hash = o.attempt
      BY <1>1, ScreensAssumption DEF RouteIsSound, ToldEnd, Out, RouteOp
<1> QED  BY <1>1, <1>4, <1>5, <1>6 DEF a, o, Route!Settled, Settled, Route!Shown, SavedIsSound, Route!Fresh

\* It holds at first.
LEMMA RouteInvInit ==
    ASSUME Route!Init
    PROVE  RouteInv
<1>1. /\ active = [r \in Routes |-> None] /\ savedRoutes = active
      /\ routeOps = [r \in Routes |-> Route!NoOp] /\ tellings = {} /\ routePolls = {} /\ untold = {}
      BY DEF Route!Init
<1>4. ASSUME NEW r \in Routes
      PROVE  RouteAt(r, active[r], savedRoutes[r], routeOps[r], tellings, untold, routePolls)
      BY <1>1 DEF RouteAt, MarksAreSound, SavedIsSound, OpIsSound, Out, Settled, Route!NoOp, RouteOp
<1> QED  BY <1>1, <1>4 DEF RouteInv, Route!NoOp, RouteOp

\* What one call of an operation tells its route, when it is broadcast and when it has ended.
LEMMA SwapIsBroadcast ==
    ASSUME NEW a \in ActiveRoute, a.hash = None, NEW r, NEW n \in Nat, NEW b,
           b = Route!TellCall(a, r \in Swaps, n, "broadcast", "swap")
    PROVE  b \in ActiveRoute /\ b.status = "in-progress" /\ b.hash = n
<1>1. b = [[a EXCEPT !.status = "in-progress"] EXCEPT !.hash = n]
  <2> DEFINE c == [a EXCEPT !.status = "in-progress"]
  <2> HIDE DEF c
  <2> QED  BY DEF Route!TellCall, c, Route!TellBroadcast, Route!TellApproval, Route!TellHash, ActiveRoute,
              Route!TellCompleted
<1> QED  BY <1>1 DEF ActiveRoute

\* An approval that is broadcast is waited for.
LEMMA ApprovalIsBroadcast ==
    ASSUME NEW a \in ActiveRoute, NEW r, NEW n \in Nat, NEW b,
           b = Route!TellCall(a, r \in Swaps, n, "broadcast", "approval")
    PROVE  b \in ActiveRoute /\ b.status = "waiting-approval-to-resolve" /\ b.hash = a.hash
<1> DEFINE c == [a EXCEPT !.status = "waiting-approval-to-resolve"]
<1>5. b = c
      BY DEF Route!TellCall, Route!TellBroadcast, Route!TellApproval, Route!TellHash, Route!TellCompleted
<1> QED  BY <1>5 DEF ActiveRoute

\* The end of the route's transaction is shown, but for a bridge, which goes on.
LEMMA SwapEnds ==
    ASSUME NEW a \in ActiveRoute, a.hash # None, NEW r, NEW n, NEW end \in Settled, NEW b,
           b = Route!TellCall(a, r \in Swaps, n, end, "swap")
    PROVE  /\ b \in ActiveRoute /\ b.hash = a.hash
           /\ end = "failure" => b.status = "failed"
           /\ end = "success" /\ r \in Swaps => b.status = "completed"
           /\ end = "success" /\ r \notin Swaps => b.status = a.status
<1>4. b = Route!TellCompleted(a, r \in Swaps, "swap", end)
      BY DEF Route!TellCall, Route!TellBroadcast, Settled, Route!TellApproval, Route!TellHash
<1>5. CASE end = "failure"
      BY <1>4, <1>5 DEF ActiveRoute, Route!TellCompleted
<1>6. CASE end = "success" /\ r \in Swaps
      BY <1>4, <1>6 DEF ActiveRoute, Route!TellCompleted
<1>7. CASE end = "success" /\ r \notin Swaps
      BY <1>4, <1>7 DEF Route!TellCompleted
<1> QED  BY <1>5, <1>6, <1>7 DEF Settled

\* The end of an approval makes a route that waited for it ready.
LEMMA ApprovalEnds ==
    ASSUME NEW a \in ActiveRoute, NEW r, NEW n, NEW end \in Settled, NEW b,
           b = Route!TellCall(a, r \in Swaps, n, end, "approval")
    PROVE  /\ b \in ActiveRoute /\ b.hash = a.hash
           /\ b.status = IF a.status = "waiting-approval-to-resolve" THEN "ready" ELSE a.status
<1> DEFINE c == Route!TellApproval(a, "approval", end)
<1>5. b = c
      BY DEF Route!TellCall, Route!TellBroadcast, Settled, Route!TellHash, Route!TellCompleted
<1>6. CASE a.status # "waiting-approval-to-resolve"
      BY <1>5, <1>6 DEF Route!TellApproval
<1>7. CASE a.status = "waiting-approval-to-resolve" /\ end = "success"
      BY <1>5, <1>7 DEF ActiveRoute, Route!TellApproval
<1>8. CASE a.status = "waiting-approval-to-resolve" /\ end = "failure"
      BY <1>5, <1>8 DEF ActiveRoute, Route!TellApproval
<1> QED  BY <1>6, <1>7, <1>8 DEF Settled

\* What the whole operation tells it.
LEMMA OpIsBroadcast ==
    ASSUME NEW a \in ActiveRoute, a.hash = None, NEW r, NEW o \in RouteOp, o.calls # <<>>, NEW b,
           b = Route!Told(a, r \in Swaps, o, "broadcast")
    PROVE  /\ b \in ActiveRoute
           /\ o.calls \in Swapping => b.status = "in-progress" /\ b.hash = o.attempt
           /\ o.calls \notin Swapping => b.status = "waiting-approval-to-resolve" /\ b.hash = None
<1>0. o.attempt \in Nat
      BY DEF RouteOp
<1>1. CASE o.calls = <<"swap">>
      BY <1>0, <1>1, SwapIsBroadcast, ToldOfOne DEF Swapping
<1>2. CASE o.calls = <<"approval">>
      BY <1>0, <1>2, ApprovalIsBroadcast, ToldOfOne DEF Swapping
<1>3. CASE o.calls = <<"approval", "swap">>
  <2>1. PICK c : c = Route!TellCall(a, r \in Swaps, o.attempt, "broadcast", "approval")
        OBVIOUS
  <2> QED  BY <1>0, <1>3, <2>1, SwapIsBroadcast, ToldOfTwo, ApprovalIsBroadcast DEF Swapping
<1> QED  BY <1>1, <1>2, <1>3 DEF RouteOp, Swapping

\* What its end tells it.
LEMMA OpEnds ==
    ASSUME NEW a \in ActiveRoute, NEW r, NEW o \in RouteOp, o.calls # <<>>, NEW end \in Settled, NEW b,
           b = Route!Told(a, r \in Swaps, o, end),
           o.calls \in Swapping => a.hash # None /\ a.status # "waiting-approval-to-resolve"
    PROVE  /\ b \in ActiveRoute /\ b.hash = a.hash
           /\ o.calls \notin Swapping =>
                b.status = IF a.status = "waiting-approval-to-resolve" THEN "ready" ELSE a.status
           /\ o.calls \in Swapping =>
                /\ end = "failure" => b.status = "failed"
                /\ end = "success" /\ r \in Swaps => b.status = "completed"
                /\ end = "success" /\ r \notin Swaps => b.status = a.status
<1>1. CASE o.calls = <<"swap">>
      BY <1>1, SwapEnds, ToldOfOne DEF Swapping
<1>2. CASE o.calls = <<"approval">>
      BY <1>2, ApprovalEnds, ToldOfOne DEF Swapping
<1>3. CASE o.calls = <<"approval", "swap">>
  <2>1. PICK c : c = Route!TellCall(a, r \in Swaps, o.attempt, end, "approval")
        OBVIOUS
  <2> QED  BY <1>3, <2>1, SwapEnds, ToldOfTwo, ApprovalEnds DEF Swapping
<1> QED  BY <1>1, <1>2, <1>3 DEF RouteOp, Swapping

\* The steps of one route: the others are as they were, or saved with it.
LEMMA OneRouteSteps ==
    ASSUME RouteInv, NEW r \in Routes, active' \in [Routes -> ActiveRoute \cup {None}],
           routeOps' \in [Routes -> RouteOp], savedRoutes' \in {savedRoutes, active'},
           \A q \in Routes \ {r} : active'[q] = active[q] /\ routeOps'[q] = routeOps[q],
           tellings' \subseteq tellings \cup {r}, tellings \subseteq tellings' \cup {r},
           untold' = untold,
           \A q \in Routes \ {r} : \A n : <<q, n>> \in routePolls' => <<q, n>> \in routePolls,
           RouteAt(r, active'[r], savedRoutes'[r], routeOps'[r], tellings', untold', routePolls')
    PROVE  RouteInv'
<1>1. ASSUME NEW q \in Routes \ {r}
      PROVE  RouteAt(q, active'[q], savedRoutes'[q], routeOps'[q], tellings', untold', routePolls')
      BY DEF RouteAt, RouteIsSound, SavedIsSound, RouteInv, MarksAreSound, ToldEnd
<1> QED  BY <1>1 DEF RouteInv

\* A route that another is, or is none, is saved as it is.
LEMMA RouteChanges ==
    ASSUME RouteInv, NEW r \in Routes, NEW a \in ActiveRoute \cup {None}, Route!Updates(r, a),
           UNCHANGED <<routeOps, tellings, untold>>,
           \A q \in Routes \ {r} : \A n : <<q, n>> \in routePolls' => <<q, n>> \in routePolls,
           MarksAreSound(r, routeOps[r], tellings, untold, routePolls'),
           a # None => RouteIsSound(r, a, routeOps[r], tellings, untold)
    PROVE  RouteInv'
<1> QED  BY OneRouteSteps DEF RouteInv, Route!Updates, RouteAt, SavedIsSound

\* What is known of one route.
LEMMA OneRoute ==
    ASSUME RouteInv, NEW r \in Routes
    PROVE  /\ active[r] \in ActiveRoute \cup {None} /\ routeOps[r] \in RouteOp
           /\ OpIsSound(routeOps[r]) /\ SavedIsSound(active[r], savedRoutes[r], routeOps[r])
           /\ MarksAreSound(r, routeOps[r], tellings, untold, routePolls)
           /\ active[r] # None => RouteIsSound(r, active[r], routeOps[r], tellings, untold)
           /\ active \in [Routes -> ActiveRoute \cup {None}] /\ routeOps \in [Routes -> RouteOp]
BY DEF RouteInv, RouteAt

\* The user starts a route and signs, or does not.
LEMMA RouteIsStarted ==
    ASSUME RouteInv, NEW r \in Routes, NEW batch \in Swapping, Route!AddActiveRoute(r, batch)
    PROVE  RouteInv'
<1>1. PICK n \in Nat : n = routeOps[r].attempt
      BY OneRoute DEF RouteOp
<1>2. PICK next \in Nat : next = n + 1
      OBVIOUS
<1> DEFINE o == [Route!NoOp EXCEPT !.at = "signing", !.calls = batch, !.attempt = next]
<1>3. /\ active[r] = None /\ active' = [active EXCEPT ![r] = Route!Fresh]
      /\ routeOps' = [routeOps EXCEPT ![r] = o]
      /\ UNCHANGED <<savedRoutes, tellings, routePolls, untold>>
      BY <1>1, <1>2 DEF Route!AddActiveRoute
<1>4. batch # <<>>
      BY DEF Swapping
<1>5. /\ o \in RouteOp /\ o.at = "signing" /\ o.calls = batch /\ o.mined = "no" /\ o.known = "none"
      /\ o.attempt = n + 1
      BY <1>2 DEF RouteOp, Route!NoOp
<1>6. Route!Fresh \in ActiveRoute /\ Route!Fresh.status = "ready" /\ Route!Fresh.hash = None
      BY DEF Route!Fresh, ActiveRoute
<1> HIDE DEF o
<1>7. /\ active \in [Routes -> ActiveRoute \cup {None}] /\ routeOps \in [Routes -> RouteOp]
      /\ SavedIsSound(active[r], savedRoutes[r], routeOps[r])
      /\ MarksAreSound(r, routeOps[r], tellings, untold, routePolls) /\ OpIsSound(routeOps[r])
      /\ routeOps[r].at = "none"
      BY OneRoute DEF Route!AddActiveRoute
<1>11. MarksAreSound(r, o, tellings, untold, routePolls)
  <2>2. ASSUME NEW k, <<r, k>> \in routePolls
        PROVE  r \notin Swaps /\ k \in Nat /\ k <= o.attempt /\ k # o.attempt
        BY <1>1, <1>5, <1>7, <2>2 DEF MarksAreSound
  <2> QED  BY <1>7, <2>2 DEF MarksAreSound, OpIsSound, Settled
<1>14. RouteAt(r, active'[r], savedRoutes'[r], routeOps'[r], tellings', untold', routePolls')
      BY <1>3, <1>4, <1>5, <1>6, <1>7, <1>11, ScreensAssumption DEF RouteAt, OpIsSound, Out, Settled,
         RouteIsSound, ToldEnd, SavedIsSound
<1> QED  BY <1>3, <1>5, <1>6, <1>7, <1>14, OneRouteSteps

\* A route that is not sent is removed.
LEMMA RouteIsNotSent ==
    ASSUME RouteInv, NEW r \in Routes, Route!NotSent(r)
    PROVE  RouteInv'
<1>1. PICK n \in Nat : n = routeOps[r].attempt
      BY OneRoute DEF RouteOp
<1> DEFINE o == [at |-> "none", calls |-> <<>>, mined |-> "no", known |-> "none", attempt |-> n]
<1>2. [Route!NoOp EXCEPT !.attempt = n] = o
      BY DEF Route!NoOp
<1>5. /\ o \in RouteOp /\ o.at = "none" /\ o.calls = <<>> /\ o.mined = "no" /\ o.known = "none"
      /\ o.attempt = n
      BY <1>1 DEF RouteOp
<1> HIDE DEF o
<1>14. RouteAt(r, active'[r], savedRoutes'[r], routeOps'[r], tellings', untold', routePolls')
      BY <1>1, <1>2, <1>5, OneRoute DEF RouteAt, SavedIsSound, OpIsSound, Out, Settled, MarksAreSound,
         Route!NotSent, Route!Updates
<1> QED  BY <1>1, <1>2, <1>5, <1>14, OneRouteSteps, OneRoute DEF Route!NotSent, Route!Updates

\* The network has the operation, and the route is told.
LEMMA RouteIsSent ==
    ASSUME RouteInv, NEW r \in Routes, NEW batch \in Swapping \cup {<<"approval">>},
           Route!Broadcast(r, batch)
    PROVE  RouteInv'
<1>0. /\ routeOps[r] \in RouteOp /\ active \in [Routes -> ActiveRoute \cup {None}]
      /\ routeOps \in [Routes -> RouteOp] /\ OpIsSound(routeOps[r])
      /\ SavedIsSound(active[r], savedRoutes[r], routeOps[r])
      /\ MarksAreSound(r, routeOps[r], tellings, untold, routePolls)
      /\ active[r] # None => RouteIsSound(r, active[r], routeOps[r], tellings, untold)
      /\ routeOps[r].at = "signing"
      BY OneRoute DEF Route!Broadcast
<1>1. PICK o : o = routeOps'[r]
      OBVIOUS
<1>2. /\ o \in RouteOp /\ o.at = "sent" /\ o.calls = batch /\ o.mined = routeOps[r].mined
      /\ o.known = routeOps[r].known /\ o.attempt = routeOps[r].attempt
      /\ routeOps' \in [Routes -> RouteOp]
      /\ \A q \in Routes \ {r} : routeOps'[q] = routeOps[q]
  <2>2. PICK p \in RouteOp : p = routeOps[r]
        BY <1>0
  <2> QED  BY <1>0, <1>1, <2>2 DEF RouteOp, Route!Broadcast
<1>3. Route!Tell(r, o, "broadcast") /\ UNCHANGED <<tellings, routePolls, untold>>
      BY <1>1 DEF Route!Broadcast
<1>4. batch # <<>>
      BY DEF Swapping
<1>7. CASE active[r] = None
  <2>2. SavedIsSound(active[r], savedRoutes[r], o)
        BY <1>0, <1>7, ScreensAssumption DEF SavedIsSound, Route!Fresh, ActiveRoute
  <2> QED  BY <1>0, <1>1, <1>2, <1>3, <1>4, <1>7, <2>2, OneRouteSteps DEF Route!Tell, RouteAt,
              MarksAreSound, OpIsSound, Settled, Out
<1>8. CASE active[r] # None
  <2>1. PICK b : b = Route!Told(active[r], r \in Swaps, o, "broadcast")
        OBVIOUS
  <2>2. active' = [active EXCEPT ![r] = b] /\ savedRoutes' = active'
        BY <1>3, <1>8, <2>1 DEF Route!Tell, Route!Updates
  <2>4. RouteIsSound(r, b, o, tellings, untold)
        BY <1>0, <1>2, <1>4, <1>8, <2>1, OpIsBroadcast DEF RouteIsSound, ToldEnd, Out
  <2>5. /\ active' \in [Routes -> ActiveRoute \cup {None}] /\ active'[r] = b
        /\ \A q \in Routes \ {r} : active'[q] = active[q]
        BY <1>0, <1>2, <1>4, <1>8, <2>1, <2>2, OpIsBroadcast DEF RouteIsSound
  <2>6. RouteAt(r, active'[r], savedRoutes'[r], routeOps'[r], tellings', untold', routePolls')
        BY <1>0, <1>1, <1>2, <1>3, <1>4, <2>2, <2>4, <2>5 DEF RouteAt, SavedIsSound, MarksAreSound,
           OpIsSound, Settled, Out
  <2> QED  BY <1>2, <1>3, <2>2, <2>5, <2>6, OneRouteSteps
<1> QED  BY <1>7, <1>8

\* An operation is recorded, mined or refreshed, and the route is as it was.
LEMMA OpMoves ==
    ASSUME RouteInv, NEW r \in Routes, NEW o \in RouteOp, routeOps' \in [Routes -> RouteOp],
           routeOps'[r] = o, \A q \in Routes \ {r} : routeOps'[q] = routeOps[q],
           UNCHANGED <<active, savedRoutes, untold, routePolls>>,
           tellings' \subseteq tellings \cup {r}, tellings \subseteq tellings' \cup {r},
           OpIsSound(o), MarksAreSound(r, o, tellings', untold, routePolls),
           active[r] # None => RouteIsSound(r, active[r], o, tellings', untold),
           routeOps[r].at # "signing"
    PROVE  RouteInv'
<1> QED  BY OneRouteSteps, OneRoute DEF SavedIsSound, RouteAt

\* The history has an operation that was sent.
LEMMA OpIsRecorded ==
    ASSUME RouteInv, NEW r \in Routes, Route!AddAccountOp(r)
    PROVE  RouteInv'
<1>0. /\ routeOps[r] \in RouteOp /\ routeOps \in [Routes -> RouteOp] /\ OpIsSound(routeOps[r])
      /\ MarksAreSound(r, routeOps[r], tellings, untold, routePolls)
      /\ active[r] # None => RouteIsSound(r, active[r], routeOps[r], tellings, untold)
      /\ routeOps[r].at = "sent"
      BY OneRoute DEF Route!AddAccountOp
<1>1. PICK p \in RouteOp : p = routeOps[r]
      BY <1>0
<1>2. PICK o : o = [p EXCEPT !.at = "recorded", !.known = "broadcast"]
      OBVIOUS
<1>7. MarksAreSound(r, o, tellings, untold, routePolls)
      BY <1>0, <1>1, <1>2 DEF MarksAreSound, OpIsSound, Out, Settled, RouteOp
<1> QED  BY <1>0, <1>1, <1>2, <1>7, OpMoves DEF Route!AddAccountOp, OpIsSound, Out, Settled, RouteIsSound,
            ToldEnd, RouteOp

\* The network includes it.
LEMMA OpIsMined ==
    ASSUME RouteInv, NEW r \in Routes, NEW status \in Settled, Route!Mined(r, status)
    PROVE  RouteInv'
<1>0. /\ routeOps[r] \in RouteOp /\ routeOps \in [Routes -> RouteOp] /\ OpIsSound(routeOps[r])
      /\ MarksAreSound(r, routeOps[r], tellings, untold, routePolls)
      /\ active[r] # None => RouteIsSound(r, active[r], routeOps[r], tellings, untold)
      /\ routeOps[r].at \in Out /\ routeOps[r].mined = "no"
      BY OneRoute DEF Route!Mined, Out
<1>1. PICK p \in RouteOp : p = routeOps[r]
      BY <1>0
<1>2. PICK o : o = [p EXCEPT !.mined = status]
      OBVIOUS
<1>7. MarksAreSound(r, o, tellings, untold, routePolls)
      BY <1>0, <1>1, <1>2 DEF MarksAreSound, Out, Settled, RouteOp
<1> QED  BY <1>0, <1>1, <1>2, <1>7, OpMoves DEF Out, Route!Mined, OpIsSound, Settled, RouteIsSound, ToldEnd,
            RouteOp

\* The history is refreshed, and the route is to be told.
LEMMA OpIsRefreshed ==
    ASSUME RouteInv, NEW r \in Routes, Route!Refresh(r)
    PROVE  RouteInv'
<1>0. /\ routeOps[r] \in RouteOp /\ routeOps \in [Routes -> RouteOp] /\ OpIsSound(routeOps[r])
      /\ MarksAreSound(r, routeOps[r], tellings, untold, routePolls)
      /\ active[r] # None => RouteIsSound(r, active[r], routeOps[r], tellings, untold)
      /\ routeOps[r].at = "recorded" /\ routeOps[r].known = "broadcast" /\ routeOps[r].mined # "no"
      BY OneRoute DEF Route!Refresh
<1>1. PICK p \in RouteOp : p = routeOps[r]
      BY <1>0
<1>9. PICK end \in Settled : end = p.mined
      BY <1>0, <1>1 DEF RouteOp, Settled
<1>2. PICK o : o = [p EXCEPT !.known = end]
      OBVIOUS
<1>4. /\ o \in RouteOp /\ o.at = "recorded" /\ o.known = end /\ o.calls = p.calls
      /\ o.mined = end /\ o.attempt = p.attempt
      BY <1>0, <1>1, <1>9, <1>2 DEF RouteOp, Settled
<1>8. active[r] # None => RouteIsSound(r, active[r], o, tellings', untold)
      BY <1>0, <1>1, <1>4, <1>9 DEF RouteIsSound, ToldEnd, Out, Settled, Route!Refresh
<1> QED  BY <1>0, <1>1, <1>2, <1>4, <1>8, <1>9, OpMoves DEF MarksAreSound, Out, Settled, Route!Refresh,
            OpIsSound

\* The route is told how its operation ended.
LEMMA RouteIsTold ==
    ASSUME RouteInv, NEW r \in Routes, Route!Refreshed(r)
    PROVE  RouteInv'
<1>0. /\ routeOps[r] \in RouteOp /\ OpIsSound(routeOps[r])
      /\ MarksAreSound(r, routeOps[r], tellings, untold, routePolls)
      /\ active[r] # None => RouteIsSound(r, active[r], routeOps[r], tellings, untold)
      /\ active \in [Routes -> ActiveRoute \cup {None}] /\ routeOps \in [Routes -> RouteOp]
      /\ SavedIsSound(active[r], savedRoutes[r], routeOps[r])
      BY OneRoute
<1>1. PICK o \in RouteOp : o = routeOps[r]
      BY <1>0
<1>2. /\ r \in tellings /\ tellings' = tellings \ {r} /\ Route!Tell(r, o, o.known)
      /\ UNCHANGED <<routeOps, routePolls, untold>>
      BY <1>1 DEF Route!Refreshed
<1>3. /\ o.at = "recorded" /\ o.known \in Settled /\ r \notin untold /\ o.calls # <<>>
      /\ o.known = o.mined /\ savedRoutes[r] = active[r]
      BY <1>0, <1>1, <1>2 DEF MarksAreSound, OpIsSound, Out, SavedIsSound
<1>5. CASE active[r] = None
      BY <1>0, <1>1, <1>2, <1>3, <1>5, OpMoves DEF MarksAreSound, Route!Tell
<1>6. CASE active[r] # None
  <2>1. PICK b : b = Route!Told(active[r], r \in Swaps, o, o.known)
        OBVIOUS
  <2>6. /\ o.calls \in Swapping => active[r].hash # None /\ active[r].hash = o.attempt
        /\ o.calls \in Swapping => active[r].status \in {"in-progress", "completed", "refunded"}
        /\ o.calls \in Swapping /\ active[r].status = "refunded" => o.mined = "success"
        /\ o.calls \notin Swapping => /\ active[r].hash = None
                                      /\ active[r].status = "waiting-approval-to-resolve"
        BY <1>0, <1>1, <1>2, <1>3, <1>6, ScreensAssumption DEF RouteIsSound, Out, RouteOp, ToldEnd
  <2>9. RouteIsSound(r, b, o, tellings', untold)
        BY <1>0, <1>1, <1>2, <1>3, <1>6, <2>1, <2>6, OpEnds DEF RouteIsSound, Out, Settled, ToldEnd
  <2>10. /\ active' \in [Routes -> ActiveRoute \cup {None}] /\ active'[r] = b
         /\ \A q \in Routes \ {r} : active'[q] = active[q]
         BY <1>0, <1>1, <1>2, <1>3, <1>6, <2>1, <2>6, OpEnds DEF Route!Tell, Route!Updates
  <2> QED  BY <1>0, <1>1, <1>2, <1>6, <2>1, <2>9, <2>10, OneRouteSteps DEF RouteAt, SavedIsSound,
              MarksAreSound, Route!Tell, Route!Updates
<1> QED  BY <1>5, <1>6

\* The routes in progress are polled.
LEMMA RouteIsPolled ==
    ASSUME RouteInv, NEW r \in Routes, Route!CheckForNextUserTx(r)
    PROVE  RouteInv'
<1>0. /\ routeOps[r] \in RouteOp /\ OpIsSound(routeOps[r])
      /\ MarksAreSound(r, routeOps[r], tellings, untold, routePolls)
      /\ SavedIsSound(active[r], savedRoutes[r], routeOps[r])
      /\ active \in [Routes -> ActiveRoute \cup {None}] /\ routeOps \in [Routes -> RouteOp]
      BY OneRoute
<1>1. PICK o \in RouteOp : o = routeOps[r]
      BY <1>0
<1>2. /\ active[r] # None /\ active[r].status = "in-progress" /\ active[r].hash # None
      /\ UNCHANGED <<routeOps, tellings, untold>>
      BY DEF Route!CheckForNextUserTx, Route!Polled
<1>3. PICK a \in ActiveRoute : a = active[r]
      BY <1>0, <1>2
<1>5. o.at \in Out /\ o.calls \in Swapping /\ a.hash = o.attempt
      /\ (r \in Swaps => ~ToldEnd(r, o, tellings, untold))
      BY <1>1, <1>2, <1>3, OneRoute DEF RouteIsSound, ToldEnd, Settled
<1>6. CASE r \in Swaps
  <2>1. PICK b : b = [a EXCEPT !.status = "completed", !.error = FALSE]
        OBVIOUS
  <2> QED  BY <1>0, <1>1, <1>2, <1>3, <1>5, <1>6, <2>1, RouteChanges DEF ActiveRoute,
              Route!CheckForNextUserTx, RouteIsSound, Out
<1>7. CASE r \notin Swaps
  <2>1. routePolls' = routePolls \cup {<<r, o.attempt>>} /\ UNCHANGED <<active, savedRoutes>>
        BY <1>3, <1>5, <1>7 DEF Route!CheckForNextUserTx
  <2>3. ASSUME NEW n, <<r, n>> \in routePolls'
        PROVE  /\ r \notin Swaps /\ n \in Nat /\ n <= o.attempt
               /\ n = o.attempt => o.at # "signing" /\ (o.at \in Out => o.calls \in Swapping)
    <3>1. CASE <<r, n>> \in routePolls
          BY <1>0, <1>1, <3>1 DEF MarksAreSound
    <3>2. CASE n = o.attempt
          BY <1>5, <1>7, <3>2 DEF RouteOp, Out
    <3> QED  BY <2>1, <2>3, <3>1, <3>2
  <2> QED  BY <1>0, <1>1, <1>2, <1>3, <2>1, <2>3, OneRouteSteps, OneRoute DEF RouteAt, MarksAreSound
<1> QED  BY <1>6, <1>7

\* An answer arrives, or none.
LEMMA RouteIsAnswered ==
    ASSUME RouteInv, NEW r \in Routes, NEW n, NEW answer,
           Route!StatusArrives(r, n, answer) \/ Route!StatusFails(r, n)
    PROVE  RouteInv'
<1>0. /\ routeOps[r] \in RouteOp /\ OpIsSound(routeOps[r])
      /\ MarksAreSound(r, routeOps[r], tellings, untold, routePolls)
      /\ SavedIsSound(active[r], savedRoutes[r], routeOps[r])
      /\ active \in [Routes -> ActiveRoute \cup {None}] /\ routeOps \in [Routes -> RouteOp]
      BY OneRoute
<1>1. PICK o \in RouteOp : o = routeOps[r]
      BY <1>0
<1>2. /\ <<r, n>> \in routePolls /\ routePolls' = routePolls \ {<<r, n>>}
      /\ UNCHANGED <<routeOps, tellings, untold>>
      BY DEF Route!StatusArrives, Route!StatusFails
<1>5. CASE UNCHANGED <<active, savedRoutes>>
      BY <1>0, <1>1, <1>2, <1>5, OneRouteSteps, OneRoute DEF RouteAt, MarksAreSound
<1>6. ASSUME active[r] # None, NEW b \in ActiveRoute, Route!Updates(r, b),
             RouteIsSound(r, b, o, tellings, untold)
      PROVE  RouteInv'
      BY <1>0, <1>1, <1>2, <1>6, RouteChanges DEF MarksAreSound
<1>7. ASSUME active[r] # None, NEW e \in BOOLEAN, NEW b, b = [active[r] EXCEPT !.error = e],
             Route!Updates(r, b)
      PROVE  RouteInv'
      BY <1>0, <1>1, <1>6, <1>7, OneRoute DEF RouteIsSound, ActiveRoute
<1>8. CASE Route!StatusFails(r, n)
  <2>1. PICK b : b = [active[r] EXCEPT !.error = TRUE]
        OBVIOUS
  <2> QED  BY <1>5, <1>7, <1>8, <2>1 DEF Route!StatusFails
<1>9. CASE Route!StatusArrives(r, n, answer)
  <2>1. CASE active[r] = None \/ (answer = "pending" /\ ~active[r].error)
        BY <1>5, <1>9, <2>1 DEF Route!StatusArrives
  <2>2. CASE active[r] # None /\ answer = "pending" /\ active[r].error
    <3>1. PICK a \in ActiveRoute : a = active[r]
          BY <1>0, <2>2
    <3>2. PICK b : b = [a EXCEPT !.error = FALSE, !.status = a.status]
          OBVIOUS
    <3> QED  BY <1>1, <1>6, <1>9, <2>2, <3>1, <3>2, OneRoute DEF Route!StatusArrives, ActiveRoute,
                RouteIsSound
  <2>3. CASE active[r] # None /\ answer # "pending"
    <3>1. PICK a \in ActiveRoute : a = active[r]
          BY <1>0, <2>3
    <3>2. answer \in {"completed", "refunded"} /\ o.attempt = n /\ o.mined = "success"
          BY <1>1, <1>9, <2>3 DEF Route!StatusArrives, Route!Answers
    <3>3. PICK b : b = [a EXCEPT !.error = FALSE, !.status = answer]
          OBVIOUS
    <3>9. RouteIsSound(r, b, o, tellings, untold)
          BY <1>0, <1>1, <1>2, <2>3, <3>1, <3>2, <3>3, OneRoute DEF RouteIsSound, Out, OpIsSound,
             MarksAreSound, RouteOp, ActiveRoute, ToldEnd
    <3> QED  BY <1>6, <1>9, <2>3, <3>1, <3>2, <3>3, <3>9 DEF Route!StatusArrives, ActiveRoute
  <2> QED  BY <2>1, <2>2, <2>3
<1> QED  BY <1>8, <1>9

\* The next transaction of a route is asked for, and is there.
LEMMA RouteIsRebuilt ==
    ASSUME RouteInv, NEW r \in Routes, Route!Rebuild(r)
    PROVE  RouteInv'
<1>1. /\ OpIsSound(routeOps[r]) /\ MarksAreSound(r, routeOps[r], tellings, untold, routePolls)
      /\ active \in [Routes -> ActiveRoute \cup {None}] /\ routeOps \in [Routes -> RouteOp]
      BY OneRoute
<1>2. PICK a \in ActiveRoute : a = active[r] /\ RouteIsSound(r, a, routeOps[r], tellings, untold)
      BY OneRoute DEF Route!Rebuild
<1>3. PICK b : b = [a EXCEPT !.error = FALSE]
      OBVIOUS
<1>4. PICK n \in Nat : n = routeOps[r].attempt
      BY <1>1 DEF RouteOp
<1>5. PICK o : o = [Route!NoOp EXCEPT !.at = "building", !.attempt = n]
      OBVIOUS
<1>6. /\ active' = [active EXCEPT ![r] = b] /\ savedRoutes' = active'
      /\ routeOps' = [routeOps EXCEPT ![r] = o]
      /\ a.status \in {"ready", "failed"} /\ r \notin tellings
      /\ routeOps[r].at \in {"recorded", "none"} /\ routeOps[r].known # "broadcast"
      /\ UNCHANGED <<tellings, routePolls, untold>>
      BY <1>2, <1>3, <1>4, <1>5 DEF Route!Rebuild, Route!Updates
<1>8. /\ o \in RouteOp /\ o.at = "building" /\ o.calls = <<>> /\ o.mined = "no" /\ o.known = "none"
      /\ o.attempt = n
      BY <1>5 DEF RouteOp, Route!NoOp
<1>11. RouteIsSound(r, b, o, tellings, untold)
      BY <1>3, <1>6, <1>8 DEF RouteIsSound, ToldEnd, Out, ActiveRoute
<1>12. /\ active' \in [Routes -> ActiveRoute \cup {None}] /\ active'[r] = b
       /\ routeOps' \in [Routes -> RouteOp] /\ routeOps'[r] = o
       /\ \A q \in Routes \ {r} : active'[q] = active[q] /\ routeOps'[q] = routeOps[q]
       BY <1>1, <1>3, <1>6, <1>8 DEF ActiveRoute
<1> QED  BY <1>1, <1>2, <1>4, <1>6, <1>8, <1>11, <1>12, OneRouteSteps DEF RouteAt, SavedIsSound, OpIsSound,
            MarksAreSound, Out, Settled, RouteIsSound, ToldEnd

\* It is signed next.
LEMMA RouteIsSignedAgain ==
    ASSUME RouteInv, NEW r \in Routes, Route!Rebuilt(r)
    PROVE  RouteInv'
<1>1. /\ OpIsSound(routeOps[r]) /\ MarksAreSound(r, routeOps[r], tellings, untold, routePolls)
      /\ SavedIsSound(active[r], savedRoutes[r], routeOps[r])
      /\ active \in [Routes -> ActiveRoute \cup {None}] /\ routeOps \in [Routes -> RouteOp]
      BY OneRoute
<1>2. PICK n \in Nat : n = routeOps[r].attempt
      BY <1>1 DEF RouteOp
<1>3. PICK next \in Nat : next = n + 1
      OBVIOUS
<1>4. PICK o : o = [Route!NoOp EXCEPT !.at = "signing", !.calls = <<"swap">>, !.attempt = next]
      OBVIOUS
<1>5. /\ routeOps[r].at = "building" /\ routeOps' = [routeOps EXCEPT ![r] = o]
      /\ UNCHANGED <<tellings, routePolls, untold>>
      BY <1>2, <1>3, <1>4 DEF Route!Rebuilt
<1>6. /\ o \in RouteOp /\ o.at = "signing" /\ o.calls = <<"swap">> /\ o.mined = "no" /\ o.known = "none"
      /\ o.attempt = n + 1
      BY <1>3, <1>4 DEF RouteOp, Route!NoOp, Swapping
<1>7. OpIsSound(o)
      BY <1>6 DEF OpIsSound, Out, Settled
<1>8. MarksAreSound(r, o, tellings, untold, routePolls)
  <2>2. ASSUME NEW k, <<r, k>> \in routePolls
        PROVE  r \notin Swaps /\ k \in Nat /\ k <= o.attempt /\ k # o.attempt
        BY <1>1, <1>2, <1>6, <2>2 DEF MarksAreSound
  <2> QED  BY <1>1, <1>5, <2>2 DEF MarksAreSound, OpIsSound, Settled
<1>9. /\ routeOps' \in [Routes -> RouteOp] /\ routeOps'[r] = o
      /\ \A q \in Routes \ {r} : routeOps'[q] = routeOps[q]
      BY <1>1, <1>5, <1>6
<1>10. CASE active[r] = None
       BY <1>1, <1>5, <1>7, <1>8, <1>9, <1>10, OneRouteSteps DEF Route!Rebuilt, RouteAt, SavedIsSound
<1>11. CASE active[r] # None
  <2>1. PICK a \in ActiveRoute : a = active[r] /\ RouteIsSound(r, a, routeOps[r], tellings, untold)
        BY <1>11, OneRoute
  <2>2. PICK b : b = [a EXCEPT !.hash = None]
        OBVIOUS
  <2>3. active' = [active EXCEPT ![r] = b] /\ savedRoutes' = active'
        BY <1>11, <2>1, <2>2 DEF Route!Rebuilt, Route!Updates
  <2>5. RouteIsSound(r, b, o, tellings, untold)
        BY <1>5, <1>6, <2>1, <2>2 DEF RouteIsSound, ToldEnd, Out, ActiveRoute
  <2>6. /\ active' \in [Routes -> ActiveRoute \cup {None}] /\ active'[r] = b
        /\ \A q \in Routes \ {r} : active'[q] = active[q]
        BY <1>1, <2>2, <2>3 DEF ActiveRoute
  <2> QED  BY <1>5, <1>7, <1>8, <1>9, <2>3, <2>5, <2>6, OneRouteSteps DEF RouteAt, SavedIsSound
<1> QED  BY <1>10, <1>11

\* A restart brings back what is saved, and forgets what was to be told or answered.
LEMMA RouteRestarts ==
    ASSUME RouteInv, Route!Restart
    PROVE  RouteInv'
<1>1. /\ active' = savedRoutes /\ savedRoutes' = savedRoutes /\ tellings' = {} /\ routePolls' = {}
      /\ untold' = untold \cup tellings \cup {r \in Routes : routeOps[r].at = "sent"}
      BY DEF Route!Restart
<1>2. ASSUME NEW r \in Routes
      PROVE  /\ routeOps'[r] \in RouteOp
             /\ RouteAt(r, active'[r], savedRoutes'[r], routeOps'[r], tellings', untold', routePolls')
  <2>1. PICK p \in RouteOp : p = routeOps[r]
        BY OneRoute
  <2>2. PICK o : o = routeOps'[r]
        OBVIOUS
  <2>3. /\ OpIsSound(p) /\ SavedIsSound(active[r], savedRoutes[r], p)
        /\ MarksAreSound(r, p, tellings, untold, routePolls)
        /\ active[r] # None => RouteIsSound(r, active[r], p, tellings, untold)
        BY <2>1, OneRoute
  <2>4. o = CASE p.at \in {"signing", "building"} -> [Route!NoOp EXCEPT !.attempt = p.attempt]
              [] p.at = "sent" -> [p EXCEPT !.at = "unknown"]
              [] OTHER -> p
        BY <2>1, <2>2 DEF Route!Restart
  <2>5. SavedIsSound(active'[r], savedRoutes'[r], o)
        BY <1>1 DEF SavedIsSound
  <2>6. CASE p.at \in {"signing", "building"}
    <3>7. active'[r] # None => RouteIsSound(r, active'[r], o, tellings', untold')
          BY <1>1, <2>3, <2>4, <2>6 DEF RouteIsSound, SavedIsSound, ToldEnd, Out, RouteOp, Route!NoOp
    <3> QED  BY <1>1, <2>1, <2>2, <2>3, <2>4, <2>5, <2>6, <3>7 DEF RouteAt, OpIsSound, Out, Settled,
                MarksAreSound, RouteOp, Route!NoOp
  <2>7. CASE p.at = "sent"
    <3>5. active'[r] # None => RouteIsSound(r, active'[r], o, tellings', untold')
          BY <1>1, <2>3, <2>4, <2>7 DEF RouteIsSound, SavedIsSound, ToldEnd, Out, RouteOp
    <3> QED  BY <1>1, <2>2, <2>3, <2>4, <2>5, <2>7, <3>5 DEF RouteAt, OpIsSound, Out, Settled,
                MarksAreSound, RouteOp
  <2>8. CASE p.at \notin {"signing", "building", "sent"}
        BY <1>1, <2>1, <2>2, <2>3, <2>4, <2>5, <2>8 DEF RouteAt, RouteIsSound, SavedIsSound, MarksAreSound,
           ToldEnd
  <2> QED  BY <2>6, <2>7, <2>8
<1>3. routeOps' \in [Routes -> RouteOp]
  <2>1. PICK f : f = routeOps' /\ DOMAIN f = Routes /\ f = [r \in Routes |-> f[r]]
        BY DEF Route!Restart
  <2> QED  BY <1>2, <2>1
<1> QED  BY <1>1, <1>2, <1>3 DEF RouteInv

\* Every step of the routes keeps the invariant.
LEMMA RouteInvNext ==
    ASSUME RouteInv, [Route!Next]_routeVars
    PROVE  RouteInv'
<1>1. CASE UNCHANGED routeVars
      BY <1>1 DEF RouteInv, routeVars
<1>2. ASSUME NEW r \in Routes, Route!RemoveActiveRoute(r)
      PROVE  RouteInv'
      BY <1>2, RouteChanges, OneRoute DEF Route!RemoveActiveRoute
<1>3. CASE Route!Next
  <2>1. ASSUME NEW r \in Routes,
               \/ Route!NotSent(r) \/ Route!AddAccountOp(r) \/ Route!Refresh(r) \/ Route!Refreshed(r)
               \/ Route!CheckForNextUserTx(r) \/ Route!Rebuild(r) \/ Route!Rebuilt(r)
               \/ Route!RemoveActiveRoute(r)
        PROVE  RouteInv'
        BY <1>2, <2>1, RouteIsNotSent, OpIsRecorded, OpIsRefreshed, RouteIsTold, RouteIsPolled,
           RouteIsRebuilt, RouteIsSignedAgain
  <2>2. ASSUME NEW r \in Routes, NEW batch \in Swapping, Route!AddActiveRoute(r, batch)
        PROVE  RouteInv'
        BY <2>2, RouteIsStarted
  <2>3. ASSUME NEW r \in Routes, NEW batch \in Swapping \cup {<<"approval">>}, Route!Broadcast(r, batch)
        PROVE  RouteInv'
        BY <2>3, RouteIsSent
  <2>4. ASSUME NEW r \in Routes, NEW status \in Settled, Route!Mined(r, status)
        PROVE  RouteInv'
        BY <2>4, OpIsMined
  <2>5. ASSUME NEW r \in Routes, NEW n, NEW answer,
               Route!StatusArrives(r, n, answer) \/ Route!StatusFails(r, n)
        PROVE  RouteInv'
        BY <2>5, RouteIsAnswered
  <2> QED  BY <1>3, <2>1, <2>2, <2>3, <2>4, <2>5, RouteRestarts
           DEF Route!Next, Swapping, Settled, Route!Settled
<1> QED  BY <1>1, <1>3
\* Besides what RouteInv says of the routes: operations are numbered up to Attempts, the one that is
\* asked for has a number left, and the hash of a route is such a number.
Numbered(o) ==
    /\ o.attempt \in 0..Attempts
    /\ o.at = "building" => o.attempt < Attempts
    /\ o.at \notin {"none", "building"} => o.attempt >= 1
HashIsNumber(a) == a # None => a.hash \in (1..Attempts) \cup {None}
OpsAreNumbered == \A r \in Routes : Numbered(routeOps[r])
HashesAreNumbers == \A r \in Routes : HashIsNumber(active[r]) /\ HashIsNumber(savedRoutes[r])
MarksAreRoutes ==
    /\ routePolls \subseteq Routes \X (1..Attempts) /\ tellings \subseteq Routes
    /\ untold \subseteq Routes /\ routeRestarts \in 0..Restarts
RouteTypes == OpsAreNumbered /\ HashesAreNumbers /\ MarksAreRoutes

\* At first there are no operations.
LEMMA RouteTypesInit == ASSUME Route!Init PROVE RouteTypes
<1> QED  BY BoundsAssumed DEF RouteTypes, OpsAreNumbered, HashesAreNumbers, HashIsNumber, Route!Init,
            Numbered, Route!NoOp, MarksAreRoutes

\* The operation of one route changes.
LEMMA OneOpIsNumbered ==
    ASSUME RouteInv, OpsAreNumbered, NEW r \in Routes, NEW o, routeOps' = [routeOps EXCEPT ![r] = o], Numbered(o)
    PROVE  OpsAreNumbered'
<1> QED  BY DEF OpsAreNumbered, RouteInv

\* The operation of one route goes on, with the same number.
LEMMA OneOpGoesOn ==
    ASSUME RouteInv, OpsAreNumbered, NEW r \in Routes, NEW o, routeOps' = [routeOps EXCEPT ![r] = o],
           o.attempt = routeOps[r].attempt, o.at \notin {"building"},
           routeOps[r].at \notin {"none", "building"} \/ o.at = "none"
    PROVE  OpsAreNumbered'
<1> QED  BY OneOpIsNumbered DEF Numbered, OpsAreNumbered

\* The next operation of a route.
LEMMA NextOpIsNumbered ==
    ASSUME RouteInv, OpsAreNumbered, NEW r \in Routes, NEW batch, routeOps[r].attempt < Attempts,
           routeOps' = [routeOps EXCEPT ![r] = [Route!NoOp EXCEPT !.at = "signing", !.calls = batch,
                                                                  !.attempt = routeOps[r].attempt + 1]]
    PROVE  OpsAreNumbered'
<1>1. PICK n \in Nat : n = routeOps[r].attempt
      BY OneRoute DEF RouteOp
<1>2. PICK next \in Nat : next = n + 1
      OBVIOUS
<1>3. PICK o : o = [Route!NoOp EXCEPT !.at = "signing", !.calls = batch, !.attempt = next]
      OBVIOUS
<1>6. Numbered(o)
      BY <1>1, <1>2, <1>3, BoundsAssumed DEF Numbered, Route!NoOp
<1> QED  BY <1>1, <1>2, <1>3, <1>6, OneOpIsNumbered

\* Every step numbers the operations so.
LEMMA OpsNext == ASSUME RouteInv, OpsAreNumbered, [Route!Next]_routeVars PROVE OpsAreNumbered'
<1>0. ASSUME NEW r \in Routes
      PROVE  \E p \in RouteOp, n \in Nat : p = routeOps[r] /\ n = p.attempt /\ Numbered(p)
      BY OneRoute DEF OpsAreNumbered, RouteOp
<1>1. ASSUME UNCHANGED routeOps PROVE OpsAreNumbered'
      BY <1>1 DEF OpsAreNumbered
<1>2. ASSUME NEW r \in Routes, NEW batch, Route!AddActiveRoute(r, batch) PROVE OpsAreNumbered'
      BY <1>2, NextOpIsNumbered DEF Route!AddActiveRoute
<1>3. ASSUME NEW r \in Routes, Route!NotSent(r) PROVE OpsAreNumbered'
  <2>1. PICK p \in RouteOp, n \in Nat : p = routeOps[r] /\ n = p.attempt /\ Numbered(p)
        BY <1>0
  <2>2. PICK o : o = [Route!NoOp EXCEPT !.attempt = n]
        OBVIOUS
  <2> QED  BY <1>3, <2>1, <2>2, OneOpGoesOn DEF Route!NoOp, Route!NotSent
<1>4. ASSUME NEW r \in Routes, NEW batch, Route!Broadcast(r, batch) PROVE OpsAreNumbered'
  <2>1. PICK p \in RouteOp, n \in Nat : p = routeOps[r] /\ n = p.attempt /\ Numbered(p)
        BY <1>0
  <2>2. PICK o : o = [p EXCEPT !.at = "sent", !.calls = batch]
        OBVIOUS
  <2>4. routeOps' = [routeOps EXCEPT ![r] = o] /\ p.at = "signing"
        BY <1>4, <2>1, <2>2, OneRoute DEF Route!Broadcast
  <2> QED  BY <2>1, <2>2, <2>4, OneOpGoesOn DEF RouteOp
<1>5. ASSUME NEW r \in Routes, Route!AddAccountOp(r) PROVE OpsAreNumbered'
  <2>1. PICK p \in RouteOp, n \in Nat : p = routeOps[r] /\ n = p.attempt /\ Numbered(p)
        BY <1>0
  <2>2. PICK o : o = [p EXCEPT !.at = "recorded", !.known = "broadcast"]
        OBVIOUS
  <2>4. routeOps' = [routeOps EXCEPT ![r] = o] /\ p.at = "sent"
        BY <1>5, <2>1, <2>2, OneRoute DEF Route!AddAccountOp
  <2> QED  BY <2>1, <2>2, <2>4, OneOpGoesOn DEF RouteOp
<1>6. ASSUME NEW r \in Routes, NEW status, Route!Mined(r, status) PROVE OpsAreNumbered'
  <2>1. PICK p \in RouteOp, n \in Nat : p = routeOps[r] /\ n = p.attempt /\ Numbered(p)
        BY <1>0
  <2>2. PICK o : o = [p EXCEPT !.mined = status]
        OBVIOUS
  <2> QED  BY <1>6, <2>1, <2>2, OneOpGoesOn, OneRoute DEF RouteOp, Route!Mined
<1>7. ASSUME NEW r \in Routes, Route!Refresh(r) PROVE OpsAreNumbered'
  <2>1. PICK p \in RouteOp, n \in Nat : p = routeOps[r] /\ n = p.attempt /\ Numbered(p)
        BY <1>0
  <2>2. PICK o : o = [p EXCEPT !.known = p.mined]
        OBVIOUS
  <2> QED  BY <1>7, <2>1, <2>2, OneOpGoesOn, OneRoute DEF RouteOp, Route!Refresh
<1>8. ASSUME NEW r \in Routes, Route!Rebuild(r) PROVE OpsAreNumbered'
  <2>1. PICK p \in RouteOp, n \in Nat : p = routeOps[r] /\ n = p.attempt /\ Numbered(p)
        BY <1>0
  <2>2. PICK o : o = [Route!NoOp EXCEPT !.at = "building", !.attempt = n]
        OBVIOUS
  <2> QED  BY <1>8, <2>1, <2>2, OneOpIsNumbered DEF Route!NoOp, Route!Rebuild, Numbered
<1>9. ASSUME NEW r \in Routes, Route!Rebuilt(r) PROVE OpsAreNumbered'
      BY <1>9, NextOpIsNumbered DEF Route!Rebuilt, OpsAreNumbered, Numbered
<1>10. CASE Route!Restart
  <2>1. ASSUME NEW r \in Routes PROVE Numbered(routeOps'[r])
    <3>1. PICK p \in RouteOp, n \in Nat : p = routeOps[r] /\ n = p.attempt /\ Numbered(p)
          BY <1>0
    <3>2. PICK o : o = routeOps'[r]
          OBVIOUS
    <3>3. o = CASE p.at \in {"signing", "building"} -> [Route!NoOp EXCEPT !.attempt = n]
                [] p.at = "sent" -> [p EXCEPT !.at = "unknown"]
                [] OTHER -> p
          BY <1>10, <3>1, <3>2 DEF Route!Restart
    <3>4. CASE p.at \in {"signing", "building"}
          BY <3>1, <3>2, <3>3, <3>4 DEF Numbered, Route!NoOp
    <3>5. CASE p.at = "sent"
          BY <3>1, <3>2, <3>3, <3>5 DEF Numbered, RouteOp
    <3>6. CASE p.at \notin {"signing", "building", "sent"}
          BY <3>1, <3>2, <3>3, <3>6
    <3> QED  BY <3>4, <3>5, <3>6
  <2> QED  BY <2>1 DEF OpsAreNumbered
<1>11. ASSUME NEW r, \/ Route!Refreshed(r) \/ Route!CheckForNextUserTx(r) \/ Route!RemoveActiveRoute(r)
                     \/ \E n : Route!StatusFails(r, n) \/ \E answer : Route!StatusArrives(r, n, answer)
       PROVE  OpsAreNumbered'
       BY <1>1, <1>11 DEF Route!Refreshed, Route!CheckForNextUserTx, Route!RemoveActiveRoute,
                          Route!StatusFails, Route!StatusArrives
<1>12. CASE UNCHANGED routeVars
       BY <1>1, <1>12 DEF routeVars
<1> QED  BY <1>2, <1>3, <1>4, <1>5, <1>6, <1>7, <1>8, <1>9, <1>10, <1>11, <1>12 DEF Route!Next

\* One route changes.
LEMMA OneHashIsNumber ==
    ASSUME RouteInv, HashesAreNumbers, NEW r \in Routes, NEW a, active' = [active EXCEPT ![r] = a],
           savedRoutes' \in {savedRoutes, active'}, HashIsNumber(a)
    PROVE  HashesAreNumbers'
<1> QED  BY DEF HashesAreNumbers, RouteInv

\* What an operation tells its route leaves the hash, or is the number of the operation.
LEMMA ToldHashIsNumber ==
    ASSUME RouteInv, RouteTypes, NEW r \in Routes, NEW o \in RouteOp, Numbered(o), o.at \notin {"none", "building"},
           NEW status, Route!Tell(r, o, status),
           \A b : active[r] # None /\ b = Route!Told(active[r], r \in Swaps, o, status)
                    => b.hash \in {active[r].hash, o.attempt, None}
    PROVE  HashesAreNumbers'
<1>1. CASE active[r] = None
      BY <1>1 DEF RouteTypes, HashesAreNumbers, Route!Tell
<1>2. CASE active[r] # None
  <2>1. PICK b : b = Route!Told(active[r], r \in Swaps, o, status)
        OBVIOUS
  <2>6. HashIsNumber(b)
        BY <1>2, <2>1, BoundsAssumed DEF HashIsNumber, Numbered, RouteTypes, HashesAreNumbers
  <2> QED  BY <1>2, <2>1, <2>6, OneHashIsNumber DEF RouteTypes, Route!Tell, Route!Updates
<1> QED  BY <1>1, <1>2

\* The route is told of the transaction.
LEMMA BroadcastHash ==
    ASSUME RouteInv, RouteTypes, NEW r \in Routes, NEW batch \in Swapping \cup {<<"approval">>},
           Route!Broadcast(r, batch)
    PROVE  HashesAreNumbers'
<1>1. PICK p \in RouteOp : p = routeOps[r] /\ Numbered(p) /\ OpIsSound(p) /\ p.at = "signing"
      BY OneRoute DEF RouteTypes, OpsAreNumbered, Route!Broadcast
<1>2. PICK o : o = [p EXCEPT !.at = "sent", !.calls = batch]
      OBVIOUS
<1>3. o \in RouteOp /\ o.at = "sent" /\ o.calls = batch /\ o.attempt = p.attempt
      BY <1>2 DEF RouteOp
<1>4. routeOps'[r] = o
      BY <1>1, <1>2, OneRoute DEF Route!Broadcast
<1>7. ASSUME NEW b, active[r] # None, b = Route!Told(active[r], r \in Swaps, o, "broadcast")
      PROVE  b.hash \in {active[r].hash, o.attempt, None}
      BY <1>1, <1>3, <1>4, <1>7, OpIsBroadcast, OneRoute DEF Route!Broadcast, Swapping, RouteIsSound
<1> QED  BY <1>1, <1>3, <1>4, <1>7, ToldHashIsNumber DEF Route!Broadcast, Swapping, Numbered

\* It is told of its end.
LEMMA RefreshedHash == ASSUME RouteInv, RouteTypes, NEW r \in Routes, Route!Refreshed(r) PROVE HashesAreNumbers'
<1>1. PICK o \in RouteOp : /\ o = routeOps[r] /\ Numbered(o) /\ OpIsSound(o)
                           /\ o.at = "recorded" /\ o.known \in Settled
      BY OneRoute DEF RouteTypes, OpsAreNumbered, Route!Refreshed, MarksAreSound
<1>4. ASSUME NEW b, active[r] # None, b = Route!Told(active[r], r \in Swaps, o, o.known)
      PROVE  b.hash \in {active[r].hash, o.attempt, None}
  <2>1. PICK a \in ActiveRoute : a = active[r] /\ RouteIsSound(r, a, o, tellings, untold)
        BY <1>1, <1>4, OneRoute
  <2>3. o.calls \in Swapping => a.hash # None /\ a.status # "waiting-approval-to-resolve"
        BY <1>1, <2>1, ScreensAssumption DEF RouteIsSound, Out, RouteOp, ToldEnd, Route!Refreshed
  <2> QED  BY <1>1, <1>4, <2>1, <2>3, OpEnds DEF OpIsSound, Out
<1> QED  BY <1>1, <1>4, ToldHashIsNumber DEF Route!Refreshed

\* Every step leaves such hashes.
LEMMA HashesNext == ASSUME RouteInv, RouteTypes, [Route!Next]_routeVars PROVE HashesAreNumbers'
<1>0. HashesAreNumbers
      BY DEF RouteTypes
<1>1. ASSUME UNCHANGED <<active, savedRoutes>> PROVE HashesAreNumbers'
      BY <1>0, <1>1 DEF HashesAreNumbers
<1>2. ASSUME NEW r \in Routes, NEW a, Route!Updates(r, a), HashIsNumber(a) PROVE HashesAreNumbers'
      BY <1>0, <1>2, OneHashIsNumber DEF Route!Updates
<1>3. ASSUME NEW r \in Routes, active[r] # None
      PROVE  active[r] \in ActiveRoute /\ HashIsNumber(active[r])
      BY <1>0, <1>3, OneRoute DEF HashesAreNumbers
<1>4. ASSUME NEW r \in Routes, NEW batch, Route!AddActiveRoute(r, batch) PROVE HashesAreNumbers'
      BY <1>0, <1>4, OneHashIsNumber DEF Route!AddActiveRoute, HashIsNumber, Route!Fresh
<1>5. ASSUME NEW r \in Routes, Route!NotSent(r) \/ Route!RemoveActiveRoute(r) PROVE HashesAreNumbers'
      BY <1>2, <1>5 DEF Route!NotSent, Route!RemoveActiveRoute, HashIsNumber
<1>6. ASSUME NEW r \in Routes, active[r] # None, NEW b, NEW status, NEW error,
             \/ b = [active[r] EXCEPT !.status = status, !.error = error]
             \/ b = [active[r] EXCEPT !.error = error, !.status = status]
             \/ b = [active[r] EXCEPT !.error = error],
             Route!Updates(r, b)
      PROVE  HashesAreNumbers'
  <2>1. PICK a \in ActiveRoute : a = active[r] /\ HashIsNumber(a)
        BY <1>3, <1>6
  <2> QED  BY <1>2, <1>6, <2>1 DEF HashIsNumber, ActiveRoute
<1>7. ASSUME NEW r \in Routes, Route!CheckForNextUserTx(r) PROVE HashesAreNumbers'
  <2>2. PICK b : b = [active[r] EXCEPT !.status = "completed", !.error = FALSE]
        OBVIOUS
  <2> QED  BY <1>1, <1>6, <1>7, <2>2 DEF Route!CheckForNextUserTx, Route!Polled
<1>8. ASSUME NEW r \in Routes, NEW n, NEW answer, Route!StatusArrives(r, n, answer) PROVE HashesAreNumbers'
  <2>1. CASE UNCHANGED <<active, savedRoutes>>
        BY <1>1, <2>1
  <2>2. CASE ~UNCHANGED <<active, savedRoutes>>
    <3>1. PICK status : status = IF answer = "pending" THEN active[r].status ELSE answer
          OBVIOUS
    <3>2. PICK b : b = [active[r] EXCEPT !.error = FALSE, !.status = status]
          OBVIOUS
    <3> QED  BY <1>6, <1>8, <2>2, <3>1, <3>2 DEF Route!StatusArrives
  <2> QED  BY <2>1, <2>2
<1>9. ASSUME NEW r \in Routes, NEW n, Route!StatusFails(r, n) PROVE HashesAreNumbers'
  <2>1. PICK b : b = [active[r] EXCEPT !.error = TRUE]
        OBVIOUS
  <2> QED  BY <1>1, <1>6, <1>9, <2>1 DEF Route!StatusFails
<1>10. ASSUME NEW r \in Routes, Route!Rebuild(r) PROVE HashesAreNumbers'
  <2>1. PICK b : b = [active[r] EXCEPT !.error = FALSE]
        OBVIOUS
  <2> QED  BY <1>6, <1>10, <2>1 DEF Route!Rebuild
<1>11. ASSUME NEW r \in Routes, Route!Rebuilt(r) PROVE HashesAreNumbers'
  <2>1. CASE active[r] = None
        BY <1>1, <1>11, <2>1 DEF Route!Rebuilt
  <2>2. CASE active[r] # None
    <3>1. PICK b : b = [active[r] EXCEPT !.hash = None]
          OBVIOUS
    <3> QED  BY <1>2, <1>3, <1>11, <2>2, <3>1 DEF Route!Rebuilt, HashIsNumber, ActiveRoute
  <2> QED  BY <2>1, <2>2
<1>12. CASE Route!Restart
       BY <1>0, <1>12 DEF Route!Restart, HashesAreNumbers
<1>13. ASSUME NEW r, Route!AddAccountOp(r) \/ Route!Refresh(r) \/ \E status : Route!Mined(r, status)
       PROVE  HashesAreNumbers'
       BY <1>1, <1>13 DEF Route!AddAccountOp, Route!Refresh, Route!Mined
<1>14. CASE UNCHANGED routeVars
       BY <1>1, <1>14 DEF routeVars
<1> QED  BY <1>4, <1>5, <1>7, <1>8, <1>9, <1>10, <1>11, <1>12, <1>13, <1>14, BroadcastHash, RefreshedHash
         DEF Route!Next, Swapping

\* And marks that are of routes.
LEMMA MarksNext == ASSUME RouteInv, RouteTypes, [Route!Next]_routeVars PROVE MarksAreRoutes'
<1>0. MarksAreRoutes
      BY DEF RouteTypes
<1>1. ASSUME routePolls' \subseteq routePolls, tellings' \subseteq tellings, untold' \subseteq untold,
             routeRestarts' = routeRestarts
      PROVE  MarksAreRoutes'
      BY <1>0, <1>1 DEF MarksAreRoutes
<1>2. ASSUME NEW r \in Routes, Route!CheckForNextUserTx(r) PROVE MarksAreRoutes'
      BY <1>0, <1>2 DEF MarksAreRoutes, Route!CheckForNextUserTx, RouteTypes, HashesAreNumbers,
         HashIsNumber, Route!Polled
<1>3. ASSUME NEW r \in Routes, Route!Refresh(r) PROVE MarksAreRoutes'
      BY <1>0, <1>3 DEF Route!Refresh, MarksAreRoutes
<1>4. CASE Route!Restart
      BY <1>0, <1>4, BoundsAssumed DEF MarksAreRoutes, Route!Restart
<1>5. ASSUME NEW r \in Routes,
             \/ Route!NotSent(r) \/ Route!AddAccountOp(r) \/ Route!Refreshed(r) \/ Route!Rebuild(r)
             \/ Route!Rebuilt(r) \/ Route!RemoveActiveRoute(r) \/ \E batch : Route!AddActiveRoute(r, batch)
             \/ \E batch : Route!Broadcast(r, batch) \/ \E status : Route!Mined(r, status)
             \/ \E n : Route!StatusFails(r, n) \/ \E answer : Route!StatusArrives(r, n, answer)
      PROVE  MarksAreRoutes'
      BY <1>1, <1>5 DEF Route!NotSent, Route!AddAccountOp, Route!Refreshed, Route!Rebuild, Route!Rebuilt,
                        Route!RemoveActiveRoute, Route!AddActiveRoute, Route!Broadcast, Route!Mined,
                        Route!StatusFails, Route!StatusArrives
<1>6. CASE UNCHANGED routeVars
      BY <1>1, <1>6 DEF routeVars
<1> QED  BY <1>2, <1>3, <1>4, <1>5, <1>6 DEF Route!Next

\* All of it.
LEMMA RouteTypesNext == ASSUME RouteInv, RouteTypes, [Route!Next]_routeVars PROVE RouteTypes'
BY OpsNext, HashesNext, MarksNext DEF RouteTypes

\* The types that the module states.
LEMMA RouteTypeOK == ASSUME RouteInv, RouteTypes PROVE Route!TypeOK
<1>1. ASSUME NEW a \in ActiveRoute \cup {None}, HashIsNumber(a) PROVE a \in Route!Active
      BY <1>1 DEF Route!Active, ActiveRoute, HashIsNumber
<1>2. ASSUME NEW r \in Routes
      PROVE  active[r] \in Route!Active /\ savedRoutes[r] \in Route!Active
      BY <1>1 DEF RouteInv, RouteTypes, HashesAreNumbers
<1> QED  BY <1>2 DEF Route!TypeOK, RouteTypes, MarksAreRoutes, RouteInv, RouteOp
-----------------------------------------------------------------------------
(* GasSpeeds *)

\* What is assumed of the constants, as far as prices are concerned.
LEMMA GasAssumed ==
    /\ None \notin Nat \cup SignStatuses
    /\ Blocks \subseteq [baseFee : Nat, gasTarget : Nat \ {0}, gasUsed : Nat, tips : Seq(Nat), prices : Seq(Nat)]
    /\ Network \in [minBaseFee : Nat, predefined : BOOLEAN, minIsLast : BOOLEAN]
    /\ EthPrices \subseteq (Nat \ {0}) \cup {None} /\ {MinTip, MinGas, RatioOne, MaxAttempts} \subseteq Nat \ {0}
    /\ FeeOptions = [k \in 1..Len(FeeOptions) |-> FeeOptions[k]] /\ Len(FeeOptions) \in Nat
    /\ \A k \in DOMAIN FeeOptions : GoodOption(FeeOptions[k])
    /\ None \notin BundlerPrices /\ \A prices \in BundlerPrices : GoodBundler(prices)
    /\ None \notin [option : Offered, speed : 1..4, amount : Nat, price : Nat]
BY ScreensAssumption

\* A quotient is what it is said to be.
LEMMA Quotient ==
    ASSUME NEW a \in Nat, NEW d \in Nat \ {0}
    PROVE  a \div d \in Nat /\ d * (a \div d) <= a /\ a < d * (a \div d) + d
OBVIOUS

\* Nothing between two multiples of a number but what is less than it.
LEMMA LessInMultiples ==
    ASSUME NEW d \in Nat \ {0}, NEW p \in Nat, NEW q \in Nat, d * p < d * q + d
    PROVE  p <= q
<1> SUFFICES ASSUME q + 1 <= p PROVE FALSE
    OBVIOUS
<1>1. PICK r \in Nat : p = q + 1 + r
      OBVIOUS
<1> QED  BY <1>1

\* What is more has no smaller quotient.
LEMMA QuotientGrows ==
    ASSUME NEW a \in Nat, NEW b \in Nat, a <= b, NEW d \in Nat \ {0}
    PROVE  a \div d <= b \div d
<1>1. PICK p \in Nat : p = a \div d
      BY Quotient
<1>2. PICK q \in Nat : q = b \div d
      BY Quotient
<1> QED  BY <1>1, <1>2, LessInMultiples, Quotient

\* A product that is one factor's multiple grows with the other.
LEMMA ProductGrows ==
    ASSUME NEW a \in Nat, NEW b \in Nat, a <= b, NEW d \in Nat
    PROVE  d * a \in Nat /\ d * b \in Nat /\ d * a <= d * b /\ a * d <= b * d
<1>1. PICK r \in Nat : b = a + r
      OBVIOUS
<1> QED  BY <1>1

\* A smaller divisor has no smaller quotient.
LEMMA QuotientBySmaller ==
    ASSUME NEW a \in Nat, NEW d \in Nat \ {0}, NEW e \in Nat \ {0}, e <= d
    PROVE  a \div d <= a \div e
<1>1. PICK p \in Nat : p = a \div d
      BY Quotient
<1>2. PICK q \in Nat : q = a \div e
      BY Quotient
<1> QED  BY <1>1, <1>2, LessInMultiples, Quotient, ProductGrows

\* The quotient of a number between two multiples of its divisor.
LEMMA QuotientIsBetween ==
    ASSUME NEW a \in Nat, NEW d \in Nat \ {0}, NEW lo \in Nat, NEW hi \in Nat, lo * d <= a, a <= hi * d
    PROVE  a \div d \in Nat /\ lo <= a \div d /\ a \div d <= hi
<1>1. PICK p \in Nat : p = a \div d
      BY Quotient
<1>2. d * p <= a /\ a < d * p + d
      BY <1>1, Quotient
<1> QED  BY <1>1, <1>2, LessInMultiples

\* A fee in the fee token is not free, and grows with the fee in wei.
LEMMA FeeTokenGrows ==
    ASSUME NEW fee, GoodOption(fee), fee.ratio # None, NEW wei \in Nat \ {0}, NEW more \in Nat \ {0}, wei <= more
    PROVE  /\ Gas!InFeeToken(wei, fee) \in Nat \ {0} /\ Gas!InFeeToken(more, fee) \in Nat \ {0}
           /\ Gas!InFeeToken(wei, fee) <= Gas!InFeeToken(more, fee)
<1>1. PICK ratio \in Nat \ {0}, scale \in Nat \ {0} : ratio = fee.ratio /\ scale = fee.scale
      BY DEF GoodOption
<1>2. PICK d \in Nat \ {0} : d = RatioOne * scale
      BY GasAssumed
<1>3. PICK a \in Nat, b \in Nat : a = wei * ratio /\ b = more * ratio /\ a <= b
      BY ProductGrows
<1>4. PICK p \in Nat, q \in Nat : p = a \div d /\ q = b \div d /\ p <= q
      BY <1>3, Quotient, QuotientGrows
<1> QED  BY <1>1, <1>2, <1>3, <1>4 DEF Gas!InFeeToken

\* A fee that is increased stays a fee, and stays the larger one.
LEMMA IncreaseGrows ==
    ASSUME NEW a \in Nat \ {0}, NEW b \in Nat \ {0}, a <= b, NEW d \in Nat \ {0}
    PROVE  /\ Gas!IncreaseFee(a, d) \in Nat \ {0} /\ Gas!IncreaseFee(b, d) \in Nat \ {0}
           /\ Gas!IncreaseFee(a, d) <= Gas!IncreaseFee(b, d)
<1>1. PICK p \in Nat, q \in Nat : p = a \div d /\ q = b \div d /\ p <= q
      BY Quotient, QuotientGrows
<1> QED  BY <1>1 DEF Gas!IncreaseFee

\* What an operation costs is something, and more at a higher price.
LEMMA AmountGrows ==
    ASSUME NEW fee, GoodOption(fee), fee.ratio # None, NEW price \in Nat \ {0}, NEW more \in Nat \ {0},
           price <= more
    PROVE  /\ Gas!Amount(fee, price) \in Nat \ {0} /\ Gas!Amount(fee, more) \in Nat \ {0}
           /\ Gas!Amount(fee, price) <= Gas!Amount(fee, more)
<1>1. PICK gas \in Nat \ {0}, added \in Nat : gas = fee.gas /\ added = fee.addedNative
      BY DEF GoodOption
<1>2. PICK a \in Nat \ {0}, b \in Nat \ {0} : a = gas * price /\ b = gas * more /\ a <= b
      BY ProductGrows
<1>3. PICK v \in Nat \ {0}, w \in Nat \ {0} : v = a + added /\ w = b + added /\ v <= w
      BY <1>2
<1>4. CASE fee.how = "byOtherEOA"
      BY <1>1, <1>2, <1>3, <1>4 DEF Gas!Amount
<1>5. CASE fee.how = "byRelayer"
  <2>1. PICK x \in Nat \ {0}, y \in Nat \ {0} : x = Gas!InFeeToken(v, fee) /\ y = Gas!InFeeToken(w, fee) /\ x <= y
        BY <1>3, FeeTokenGrows
  <2> QED  BY <1>1, <1>2, <1>3, <1>5, <2>1, IncreaseGrows DEF Gas!Amount
<1>6. CASE fee.how = "byBundler"
  <2>1. PICK x \in Nat \ {0}, y \in Nat \ {0} : x = Gas!InFeeToken(a, fee) /\ y = Gas!InFeeToken(b, fee) /\ x <= y
        BY <1>2, FeeTokenGrows
  <2> QED  BY <1>1, <1>2, <1>6, <2>1, IncreaseGrows DEF Gas!Amount
<1> QED  BY <1>4, <1>5, <1>6 DEF GoodOption

\* Prices at each speed, which do not fall.
Rising(prices) ==
    /\ \A i \in 1..4 : prices[i].price \in Nat \ {0}
    /\ \A i \in 2..4 : prices[i - 1].price <= prices[i].price

\* What is recommended: the tip of the next speed is an eighth more.
Recommended(prices) ==
    /\ Rising(prices)
    /\ \A i \in 2..4 : prices[i].tip # None => prices[i].tip >= prices[i - 1].tip + prices[i - 1].tip \div 8

\* The speeds of an option: none is free, none costs less than a slower one.
GoodSpeeds(list) ==
    /\ DOMAIN list = 1..4 /\ \A i \in 1..4 : list[i].amount \in Nat \ {0} /\ list[i].price \in Nat
    /\ \A i \in 2..4 : /\ list[i - 1].amount <= list[i].amount
                       /\ list[i - 1].disabled => list[i].disabled

\* The bundler's prices with their extra still rise: the extra is a larger part of a faster one.
LEMMA IncreasedRises == ASSUME NEW prices, GoodBundler(prices) PROVE Rising(Gas!Increased(prices))
<1> DEFINE with == Gas!Increased(prices)
<1>1. PICK f1 \in Nat \ {0}, f2 \in Nat \ {0}, f3 \in Nat \ {0}, f4 \in Nat \ {0} :
          /\ f1 = prices[1].fee /\ f2 = prices[2].fee /\ f3 = prices[3].fee /\ f4 = prices[4].fee
          /\ f1 <= f2 /\ f2 <= f3 /\ f3 <= f4
      BY DEF GoodBundler
<1>2. PICK q1 \in Nat, q2 \in Nat, q3 \in Nat, q4 \in Nat :
          /\ q1 = f1 \div 20 /\ q2 = f2 \div 14 /\ q3 = f3 \div 10 /\ q4 = f4 \div 5
          /\ q1 <= q2 /\ q2 <= q3 /\ q3 <= q4
  <2>2. f1 \div 20 <= f2 \div 14
    <3>3. f2 \div 20 <= f2 \div 14
          BY QuotientBySmaller
    <3> QED  BY <1>1, <3>3, Quotient, QuotientGrows
  <2>3. f2 \div 14 <= f3 \div 10
    <3>3. f3 \div 14 <= f3 \div 10
          BY QuotientBySmaller
    <3> QED  BY <1>1, <3>3, Quotient, QuotientGrows
  <2>4. f3 \div 10 <= f4 \div 5
    <3>3. f4 \div 10 <= f4 \div 5
          BY QuotientBySmaller
    <3> QED  BY <1>1, <3>3, Quotient, QuotientGrows
  <2> QED  BY <2>2, <2>3, <2>4, Quotient
<1>4. with[1].price = f1 + q1 /\ with[2].price = f2 + q2 /\ with[3].price = f3 + q3 /\ with[4].price = f4 + q4
      BY <1>1, <1>2 DEF Gas!Increased, Gas!Speeds
<1> HIDE DEF with
<1>6. \A i \in 2..4 : with[i - 1].price <= with[i].price
      BY <1>1, <1>2, <1>4
<1> QED  BY <1>4, <1>6 DEF Rising, with

\* The speeds of an option, from rising prices.
LEMMA SpeedsAreGood ==
    ASSUME NEW fee, GoodOption(fee), NEW prices, Rising(prices), NEW bundler,
           bundler # None => GoodBundler(bundler)
    PROVE  Gas!SpeedsOf(fee, prices, bundler) = <<>> \/ GoodSpeeds(Gas!SpeedsOf(fee, prices, bundler))
<1> DEFINE list == Gas!SpeedsOf(fee, prices, bundler)
<1> SUFFICES ASSUME ~(fee.ratio = None \/ (fee.how = "byBundler" /\ bundler = None))
             PROVE  GoodSpeeds(list)
    BY DEF Gas!SpeedsOf
<1>1. PICK best : best = IF bundler = None THEN prices ELSE Gas!Increased(bundler)
      OBVIOUS
<1>2. Rising(best)
      BY <1>1, IncreasedRises
<1>3. list = [i \in 1..4 |-> [amount |-> Gas!Amount(fee, best[i].price), price |-> best[i].price,
                              disabled |-> fee.available < Gas!Amount(fee, best[i].price)]]
      BY <1>1 DEF Gas!SpeedsOf, Gas!Speeds
<1> HIDE DEF list
<1>4. DOMAIN list = 1..4 /\ \A i \in 1..4 : /\ list[i].amount = Gas!Amount(fee, best[i].price)
                                            /\ list[i].disabled = (fee.available < list[i].amount)
                                            /\ list[i].price = best[i].price
      BY <1>3
<1>6. ASSUME NEW i \in 2..4 PROVE list[i - 1].amount <= list[i].amount
      BY <1>2, <1>4, AmountGrows DEF Rising
<1>7. ASSUME NEW i \in 2..4, list[i - 1].disabled PROVE list[i].disabled
  <2>1. i \in 1..4 /\ i - 1 \in 1..4
        OBVIOUS
  <2>2. fee.available < list[i - 1].amount
        BY <1>4, <1>7, <2>1
  <2>4. fee.available < list[i].amount
        BY <1>2, <1>4, <1>6, <2>1, <2>2, AmountGrows DEF GoodOption, Rising
  <2> QED  BY <1>4, <2>1, <2>4
<1> QED  BY <1>2, <1>4, <1>6, <1>7, AmountGrows DEF GoodSpeeds, Rising

\* A set of numbers has a least one.
LEMMA LeastNumber == ASSUME NEW T, T \subseteq Nat, T # {} PROVE \E x \in T : \A y \in T : x <= y
<1> DEFINE R == OpToRel(<, Nat)
<1>1. IsWellFoundedOn(R, Nat)
      BY NatLessThanWellFounded
<1>2. \E x \in T : \A y \in T : <<y, x>> \notin R
  <2> HIDE DEF R
  <2> QED  BY <1>1, WFMin, Zenon
<1>3. \A x, y \in Nat : y < x => <<y, x>> \in R
      BY DEF OpToRel
<1> HIDE DEF R
<1>4. PICK x \in T : \A y \in T : <<y, x>> \notin R
      BY <1>2
<1>5. ASSUME NEW y \in T PROVE x <= y
  <2>1. x \in Nat /\ y \in Nat /\ ~(y < x)
        BY <1>3, <1>4
  <2> QED  BY <2>1
<1> QED  BY <1>5

\* If some subsets of a finite set are wrong, one of them is right without any one of its elements.
LEMMA SmallestWrong ==
    ASSUME NEW D, IsFiniteSet(D), NEW Wrong, Wrong \subseteq SUBSET D, Wrong # {}
    PROVE  \E s \in Wrong : \A x \in s : s \ {x} \notin Wrong
<1> DEFINE T == {Cardinality(s) : s \in Wrong}
<1>1. \A s \in Wrong : IsFiniteSet(s) /\ Cardinality(s) \in Nat
      BY FS_Subset, FS_CardinalityType
<1>2. T \subseteq Nat /\ T # {}
      BY <1>1
<1>3. PICK n \in T : \A m \in T : n <= m
  <2> HIDE DEF T
  <2> QED  BY <1>2, LeastNumber
<1>4. PICK s \in Wrong : Cardinality(s) = n
      OBVIOUS
<1>5. ASSUME NEW x \in s, s \ {x} \in Wrong PROVE FALSE
  <2>1. Cardinality(s \ {x}) = Cardinality(s) - 1
        BY <1>1, FS_RemoveElement
  <2>2. n <= Cardinality(s \ {x})
        BY <1>3, <1>5
  <2> QED  BY <1>1, <1>4, <2>1, <2>2
<1> QED  BY <1>5

\* An element that is taken of a set.
OneOf(s) == CHOOSE x \in s : TRUE

\* g gives the sum of f over each subset of D, as it is computed.
Sums(g, f, D) ==
    g = [s \in SUBSET D |-> IF s = {} THEN 0 ELSE f[OneOf(s)] + g[s \ {OneOf(s)}]]

\* A set that is not empty has the element that is taken.
LEMMA AnyIsIn == \A s : s # {} => OneOf(s) \in s
BY DEF OneOf

\* There is such a function.
LEMMA SumsExist ==
    ASSUME NEW D, IsFiniteSet(D), NEW f \in [D -> Int]
    PROVE  \E g : Sums(g, f, D)
<1> DEFINE Small(n) == {s \in SUBSET D : Cardinality(s) <= n}
           Next1(g, s) == IF s = {} THEN 0 ELSE f[OneOf(s)] + g[s \ {OneOf(s)}]
           Known(n, g) == \A s \in Small(n) : g[s] = Next1(g, s)
           Good == {n \in Nat : \E g \in [SUBSET D -> Int] : Known(n, g)}
<1>1. \A s \in SUBSET D : IsFiniteSet(s) /\ Cardinality(s) \in Nat
      BY FS_Subset, FS_CardinalityType
<1>4. 0 \in Good
  <2> DEFINE g == [s \in SUBSET D |-> 0]
  <2>1. g \in [SUBSET D -> Int]
        OBVIOUS
  <2>2. Known(0, g)
        BY <1>1, FS_EmptySet
  <2> QED  BY <2>1, <2>2
<1>5. ASSUME NEW n \in Good PROVE n + 1 \in Good
  <2>1. PICK g \in [SUBSET D -> Int] : Known(n, g)
        OBVIOUS
  <2> DEFINE h == [s \in SUBSET D |-> IF Cardinality(s) <= n THEN g[s] ELSE Next1(g, s)]
  <2>2. h \in [SUBSET D -> Int]
        BY <1>1, AnyIsIn, FS_RemoveElement
  <2>3. ASSUME NEW s \in Small(n + 1) PROVE h[s] = Next1(h, s)
    <3>1. CASE s = {}
          BY <2>1, <3>1
    <3>2. CASE s # {}
      <4>3. h[s] = Next1(g, s)
            BY <2>1
      <4> QED  BY <1>1, <3>2, <4>3, AnyIsIn, FS_RemoveElement
    <3> QED  BY <3>1, <3>2
  <2>4. Known(n + 1, h)
        BY <2>3
  <2> HIDE DEF h, Known
  <2> QED  BY <2>2, <2>4
<1> HIDE DEF Good
<1>6. Good = Nat
  <2> SUFFICES ASSUME Nat \ Good # {} PROVE FALSE
      BY DEF Good
  <2>1. PICK n \in Nat \ Good : \A m \in Nat \ Good : n <= m
        BY LeastNumber
  <2> QED  BY <1>4, <1>5, <2>1
<1>8. PICK g \in [SUBSET D -> Int] : Known(Cardinality(D), g)
      BY <1>1, <1>6 DEF Good
<1> QED  BY <1>8, FS_Subset DEF Sums

\* Total computes one of them.
LEMMA TotalIsComputed ==
    ASSUME NEW f, IsFiniteSet(DOMAIN f), f \in [DOMAIN f -> Int]
    PROVE  \E g : Sums(g, f, DOMAIN f) /\ Gas!Total(f) = g[DOMAIN f]
<1> DEFINE g == CHOOSE h : Sums(h, f, DOMAIN f)
<1>2. Gas!Total(f) = g[DOMAIN f]
      BY DEF Gas!Total, Gas!FoldFunction, Gas!FoldFunctionOnSet, Gas!MapThenFoldSet, Sums, OneOf
<1> QED  BY <1>2, SumsExist

\* A total is between its least and its largest part, as often as there are parts.
LEMMA TotalIsBetween ==
    ASSUME NEW f, IsFiniteSet(DOMAIN f), NEW lo \in Nat, NEW hi \in Nat,
           \A x \in DOMAIN f : f[x] \in Nat /\ lo <= f[x] /\ f[x] <= hi, f \in [DOMAIN f -> Int]
    PROVE  /\ Gas!Total(f) \in Nat
           /\ lo * Cardinality(DOMAIN f) <= Gas!Total(f) /\ Gas!Total(f) <= hi * Cardinality(DOMAIN f)
<1>1. PICK D : D = DOMAIN f
      OBVIOUS
<1>2. PICK g : Sums(g, f, D) /\ Gas!Total(f) = g[D]
      BY <1>1, TotalIsComputed
<1> DEFINE Right(s) == g[s] \in Nat /\ lo * Cardinality(s) <= g[s] /\ g[s] <= hi * Cardinality(s)
           Wrong == {s \in SUBSET D : ~Right(s)}
<1>5. ASSUME Wrong # {} PROVE FALSE
  <2>1. PICK s \in Wrong : \A x \in s : s \ {x} \notin Wrong
    <3>1. Wrong \subseteq SUBSET D
          OBVIOUS
    <3> HIDE DEF Wrong
    <3> QED  BY <1>1, <1>5, <3>1, SmallestWrong
  <2>2. CASE s = {}
        BY <1>2, <2>2, FS_EmptySet DEF Sums
  <2>3. CASE s # {}
    <3>1. PICK x \in s : x = OneOf(s)
          BY <2>3, AnyIsIn
    <3>2. PICK rest \in SUBSET D : rest = s \ {x}
          OBVIOUS
    <3>4. PICK n \in Nat : Cardinality(rest) = n /\ Cardinality(s) = n + 1
          BY <1>1, <3>2, FS_RemoveElement, FS_Subset, FS_CardinalityType
    <3>5. PICK a \in Nat, b \in Nat : a = g[rest] /\ b = f[x] /\ lo <= b /\ b <= hi
          BY <1>1, <2>1, <3>2
    <3>6. g[s] = b + a
          BY <1>2, <2>3, <3>1, <3>2, <3>5 DEF Sums
    <3> QED  BY <2>1, <3>2, <3>4, <3>5, <3>6
  <2> QED  BY <2>2, <2>3
<1> QED  BY <1>1, <1>2, <1>5

\* The same operators under another name.
LEMMA SameCardinality == \A S : Gas!Cardinality(S) = Cardinality(S)
BY DEF Gas!Cardinality, Cardinality

\* A sequence of numbers that do not fall.
Sorted(s) == s \in Seq(Nat) /\ \A i, j \in 1..Len(s) : i <= j => s[i] <= s[j]

\* The places of what is less than a number, and of what is no more.
Below(data, x) == {i \in DOMAIN data : data[i] < x}
UpTo(data, x) == {i \in DOMAIN data : data[i] <= x}

\* There are as many places as there are, from none to all.
LEMMA PlacesAreFinite ==
    ASSUME NEW data \in Seq(Nat), NEW S, S \subseteq DOMAIN data
    PROVE  /\ IsFiniteSet(S) /\ Cardinality(S) \in Nat /\ Cardinality(S) <= Len(data)
           /\ \A R \in SUBSET S : Cardinality(R) <= Cardinality(S)
<1> QED  BY FS_Subset, FS_CardinalityType, FirstNumbers

\* Some number is no less than any of a sequence.
LEMMA SomeBound == ASSUME NEW data \in Seq(Nat) PROVE \E m \in Nat : \A i \in DOMAIN data : data[i] <= m
<1> DEFINE Right(S) == \E m \in Nat : \A i \in S : data[i] <= m
           Wrong == {S \in SUBSET DOMAIN data : ~Right(S)}
<1>1. ASSUME Wrong # {} PROVE FALSE
  <2>1. PICK S \in Wrong : \A x \in S : S \ {x} \notin Wrong
    <3>1. Wrong \subseteq SUBSET DOMAIN data /\ IsFiniteSet(DOMAIN data)
          BY PlacesAreFinite
    <3> HIDE DEF Wrong
    <3> QED  BY <1>1, <3>1, SmallestWrong
  <2>2. PICK x \in S : S \subseteq DOMAIN data
        OBVIOUS
  <2>3. PICK m \in Nat : \A i \in S \ {x} : data[i] <= m
        BY <2>1
  <2> HIDE DEF Wrong
  <2>5. PICK top \in Nat : m <= top /\ data[x] <= top
    <3>1. PICK n \in Nat : n = data[x]
          BY <2>2
    <3> QED  BY <3>1
  <2>6. \A i \in S : data[i] <= top
    <3>1. ASSUME NEW i \in S PROVE data[i] <= top
      <4>1. PICK n \in Nat : n = data[i]
            BY <2>2
      <4>2. CASE i = x
            BY <2>5, <4>2
      <4>3. CASE i # x
            BY <2>3, <2>5, <4>1, <4>3
      <4> QED  BY <4>2, <4>3
    <3> QED  BY <3>1
  <2> QED  BY <2>6 DEF Wrong
<1> QED  BY <1>1

\* There is a k-th of sorted data.
LEMMA RankedIs ==
    ASSUME NEW data \in Seq(Nat), NEW k \in 1..Len(data)
    PROVE  /\ Gas!Ranked(data, k) \in Nat
           /\ Cardinality(Below(data, Gas!Ranked(data, k))) < k
           /\ Cardinality(UpTo(data, Gas!Ranked(data, k))) >= k
<1> DEFINE T == {m \in Nat : Cardinality(UpTo(data, m)) >= k}
<1>2. T # {}
  <2>1. PICK m \in Nat : \A i \in DOMAIN data : data[i] <= m
        BY SomeBound
  <2>2. UpTo(data, m) = 1..Len(data) /\ Len(data) \in Nat
        BY <2>1 DEF UpTo
  <2> QED  BY <2>2, FirstNumbers
<1>3. PICK x \in T : \A m \in T : x <= m
  <2>1. T \subseteq Nat
        OBVIOUS
  <2> HIDE DEF T
  <2> QED  BY <1>2, <2>1, LeastNumber
<1>4. x \in Nat /\ Cardinality(UpTo(data, x)) >= k
      OBVIOUS
<1>5. \A i \in DOMAIN data : data[i] \in Nat
      OBVIOUS
<1>6. Cardinality(Below(data, x)) < k
  <2>1. CASE x = 0
    <3>1. Below(data, x) = {}
          BY <1>5, <2>1 DEF Below
    <3> QED  BY <3>1, FS_EmptySet
  <2>2. CASE x # 0
    <3>1. PICK y \in Nat : x = y + 1
          BY <1>4, <2>2
    <3>2. Below(data, x) = UpTo(data, y)
          BY <1>5, <3>1 DEF Below, UpTo
    <3>4. Cardinality(UpTo(data, y)) \in Nat
          BY PlacesAreFinite DEF UpTo, Below
    <3> QED  BY <1>3, <3>1, <3>2, <3>4
  <2> QED  BY <2>1, <2>2
<1>7. x \in Gas!Range(data)
  <2>2. Below(data, x) # UpTo(data, x)
        BY <1>4, <1>6, PlacesAreFinite DEF UpTo, Below
  <2>3. PICK i \in DOMAIN data : data[i] = x
        BY <1>4, <1>5, <2>2 DEF Below, UpTo
  <2> QED  BY <2>3 DEF Gas!Range
<1> HIDE DEF T
<1> QED  BY <1>4, <1>5, <1>6, <1>7, SameCardinality DEF Gas!Range, Gas!Ranked, Below, UpTo

\* What is ranked later is no less.
LEMMA RankedGrows ==
    ASSUME NEW data \in Seq(Nat), NEW k \in 1..Len(data), NEW l \in 1..Len(data), k <= l
    PROVE  Gas!Ranked(data, k) <= Gas!Ranked(data, l)
<1>1. PICK x \in Nat : x = Gas!Ranked(data, k) /\ Cardinality(Below(data, x)) < k
      BY RankedIs
<1>2. PICK y \in Nat : y = Gas!Ranked(data, l) /\ Cardinality(UpTo(data, y)) >= l
      BY RankedIs
<1>3. ASSUME y < x PROVE FALSE
  <2>2. UpTo(data, y) \subseteq Below(data, x) /\ Below(data, x) \subseteq DOMAIN data
        BY <1>3 DEF UpTo, Below
  <2> QED  BY <1>1, <1>2, <2>2, PlacesAreFinite
<1> QED  BY <1>1, <1>2, <1>3

\* Part of a sorted sequence is sorted.
LEMMA PartIsSorted ==
    ASSUME NEW s, Sorted(s), NEW m \in Nat \ {0}, NEW n \in Nat, n <= Len(s)
    PROVE  /\ Sorted(SubSeq(s, m, n)) /\ Len(SubSeq(s, m, n)) = IF m <= n THEN n - m + 1 ELSE 0
           /\ \A i \in 1..Len(SubSeq(s, m, n)) : SubSeq(s, m, n)[i] = s[m + i - 1]
<1> DEFINE slice == SubSeq(s, m, n)
<1>2. /\ slice \in Seq(Nat) /\ Len(slice) = IF m <= n THEN n - m + 1 ELSE 0
      /\ \A i \in 1..n - m + 1 : slice[i] = s[m + i - 1]
  <2>1. \A i \in m..n : s[i] \in Nat
        BY DEF Sorted
  <2> QED  BY <2>1, SubSeqProperties
<1> HIDE DEF slice
<1>3. \A i \in 1..Len(slice) : slice[i] = s[m + i - 1] /\ m + i - 1 \in 1..Len(s)
      BY <1>2 DEF Sorted
<1>4. ASSUME NEW i \in 1..Len(slice), NEW j \in 1..Len(slice), i <= j PROVE slice[i] <= slice[j]
  <2>1. m + i - 1 <= m + j - 1
        BY <1>2, <1>4
  <2> QED  BY <1>3, <2>1 DEF Sorted
<1> QED  BY <1>2, <1>3, <1>4 DEF Sorted, slice

\* The data without what is too far from its middle are sorted.
LEMMA FilteredIsSorted == ASSUME NEW data \in Seq(Nat) PROVE Sorted(Gas!FilterOutliers(data))
<1>1. CASE data = <<>>
      BY <1>1 DEF Sorted, Gas!FilterOutliers
<1>2. CASE data # <<>>
  <2>1. PICK n \in Nat \ {0} : n = Len(data)
        BY <1>2
  <2>2. PICK s : s = [k \in 1..n |-> Gas!Ranked(data, k)]
        OBVIOUS
  <2>3. s \in Seq(Nat) /\ Len(s) = n /\ \A k \in 1..n : s[k] = Gas!Ranked(data, k)
    <3>1. \A k \in 1..n : Gas!Ranked(data, k) \in Nat
          BY <2>1, RankedIs
    <3> QED  BY <2>2, <3>1, IsASeq
  <2>4. Sorted(s)
        BY <2>1, <2>3, RankedGrows DEF Sorted
  <2>5. \A S : S \subseteq DOMAIN data => Gas!Cardinality(S) \in Nat /\ Gas!Cardinality(S) <= n
        BY <2>1, PlacesAreFinite, SameCardinality
  <2>6. PICK p, q : Gas!FilterOutliers(data)
                        = SubSeq(s, Gas!Cardinality({i \in DOMAIN data : data[i] < p}) + 1,
                                 Gas!Cardinality({i \in DOMAIN data : data[i] <= q}))
        BY <1>2, <2>1, <2>2 DEF Gas!FilterOutliers
  <2>7. PICK a \in Nat, b \in Nat : /\ a = Gas!Cardinality({i \in DOMAIN data : data[i] < p})
                                    /\ b = Gas!Cardinality({i \in DOMAIN data : data[i] <= q}) /\ b <= n
        BY <2>5
  <2> QED  BY <2>3, <2>4, <2>6, <2>7, PartIsSorted
<1> QED  BY <1>1, <1>2

\* An average is a number, and no less than the least and no more than the largest.
LEMMA AverageIsBetween ==
    ASSUME NEW s, Sorted(s), NEW m \in 1..Len(s), NEW n \in m..Len(s)
    PROVE  /\ Gas!Average(SubSeq(s, m, n)) \in Nat
           /\ s[m] <= Gas!Average(SubSeq(s, m, n)) /\ Gas!Average(SubSeq(s, m, n)) <= s[n]
<1>1. s \in Seq(Nat) /\ Len(s) \in Nat /\ m \in Nat /\ n \in Nat
      BY DEF Sorted
<1>2. PICK slice : slice = SubSeq(s, m, n)
      OBVIOUS
<1>3. PICK d \in Nat \ {0} : d = Len(slice) /\ d = n - m + 1
      BY <1>1, <1>2, PartIsSorted
<1>4. slice \in Seq(Nat) /\ \A i \in 1..d : slice[i] = s[m + i - 1]
      BY <1>1, <1>2, <1>3, PartIsSorted DEF Sorted
<1>5. PICK lo \in Nat, hi \in Nat : lo = s[m] /\ hi = s[n]
      BY <1>1
<1>6. \A i \in 1..d : lo <= slice[i] /\ slice[i] <= hi
  <2> SUFFICES ASSUME NEW i \in 1..d PROVE lo <= slice[i] /\ slice[i] <= hi
      OBVIOUS
  <2>1. PICK k \in 1..Len(s) : k = m + i - 1 /\ m <= k /\ k <= n
        BY <1>1, <1>3
  <2>2. s[m] <= s[k] /\ s[k] <= s[n] /\ m \in 1..Len(s) /\ n \in 1..Len(s)
        BY <1>1, <2>1 DEF Sorted
  <2> QED  BY <1>4, <1>5, <2>1, <2>2
<1>7. DOMAIN slice = 1..d /\ slice \in [1..d -> Int] /\ \A i \in 1..d : slice[i] \in Nat
  <2>2. ASSUME NEW i \in 1..d PROVE slice[i] \in Nat
        BY <1>3, <1>4, ElementOfSeq
  <2>3. slice \in [1..Len(slice) -> Nat]
        BY <1>4, LenProperties
  <2> QED  BY <1>3, <1>4, <2>2, <2>3, LenProperties
<1>9. PICK sum \in Nat : sum = Gas!Total(slice) /\ lo * d <= sum /\ sum <= hi * d
      BY <1>6, <1>7, TotalIsBetween, FirstNumbers
<1> QED  BY <1>2, <1>3, <1>5, <1>9, QuotientIsBetween DEF Gas!Average

\* The smaller and the larger of two numbers.
LEMMA AtMostIs ==
    ASSUME NEW a \in Nat, NEW b \in Nat
    PROVE  /\ Gas!AtMost(a, b) = IF a > b THEN b ELSE a
           /\ Gas!AtLeast(a, b) = IF a >= b THEN a ELSE b
BY DEF Gas!AtMost, Gas!AtLeast

\* Where a group begins and ends.
LEMMA GroupIs ==
    ASSUME NEW s, NEW n \in Nat, n = Len(s), NEW q \in Nat, q = n \div 4, NEW i
    PROVE  Gas!NthGroup(s, i) = SubSeq(s, (i - 1) * q + 1, IF i = 4 /\ n >= 4 THEN n
                                       ELSE Gas!AtMost((i - 1) * q + Gas!AtLeast(1, q), n))
BY DEF Gas!NthGroup, Gas!Ape

\* The average of a faster group is no less.
LEMMA AveragesRise ==
    ASSUME NEW s, Sorted(s)
    PROVE  /\ \A i \in 1..4 : Gas!Average(Gas!NthGroup(s, i)) \in Nat
           /\ \A i \in 2..4 : Gas!Average(Gas!NthGroup(s, i - 1)) <= Gas!Average(Gas!NthGroup(s, i))
<1> DEFINE avg(i) == Gas!Average(Gas!NthGroup(s, i))
<1>1. PICK n \in Nat : n = Len(s)
      BY DEF Sorted
<1>2. PICK q \in Nat : q = n \div 4 /\ 4 * q <= n /\ n < 4 * q + 4
  <2>1. 4 \in Nat \ {0}
        OBVIOUS
  <2> QED  BY <2>1, Quotient
<1>3. s \in Seq(Nat)
      BY DEF Sorted
<1>4. CASE n = 0
  <2>2. ASSUME NEW i \in 1..4 PROVE avg(i) = 0
    <3>1. Gas!NthGroup(s, i) = SubSeq(s, 1, 0)
      <4>1. q = 0 /\ (i - 1) * q = 0 /\ Gas!AtLeast(1, q) = 1 /\ ~(n >= 4)
            BY <1>2, <1>4, AtMostIs
      <4>2. Gas!NthGroup(s, i) = SubSeq(s, 0 + 1, Gas!AtMost(0 + 1, n))
            BY <1>1, <1>2, <4>1, GroupIs
      <4>3. Gas!AtMost(1, n) = 0
            BY <1>4, AtMostIs
      <4> QED  BY <4>2, <4>3
    <3>2. SubSeq(s, 1, 0) = <<>>
          BY SubSeqEmpty
    <3> QED  BY <3>1, <3>2 DEF Gas!Average
  <2> HIDE DEF avg
  <2>3. \A i \in 1..4 : avg(i) \in Nat
        BY <2>2
  <2>4. \A i \in 2..4 : avg(i - 1) <= avg(i)
    <3>1. \A i \in 2..4 : i \in 1..4 /\ i - 1 \in 1..4
          OBVIOUS
    <3> QED  BY <2>2, <3>1
  <2> QED  BY <2>3, <2>4 DEF avg
<1>5. CASE n \in 1..3
  <2>1. \A i \in 1..4 : Gas!NthGroup(s, i) = SubSeq(s, 1, 1)
    <3> SUFFICES ASSUME NEW i \in 1..4 PROVE Gas!NthGroup(s, i) = SubSeq(s, 1, 1)
        OBVIOUS
    <3>1. q = 0 /\ (i - 1) * q = 0 /\ Gas!AtLeast(1, q) = 1 /\ ~(n >= 4)
          BY <1>2, <1>5, AtMostIs
    <3>2. Gas!NthGroup(s, i) = SubSeq(s, 0 + 1, Gas!AtMost(0 + 1, n))
          BY <1>1, <1>2, <3>1, GroupIs
    <3>3. Gas!AtMost(1, n) = 1
          BY <1>5, AtMostIs
    <3> QED  BY <3>2, <3>3
  <2>2. PICK x \in Nat : x = Gas!Average(SubSeq(s, 1, 1))
        BY <1>1, <1>5, AverageIsBetween
  <2>3. \A i \in 1..4 : avg(i) = x
        BY <2>1, <2>2
  <2> HIDE DEF avg
  <2>4. \A i \in 2..4 : i \in 1..4 /\ i - 1 \in 1..4
        OBVIOUS
  <2>5. (\A i \in 1..4 : avg(i) \in Nat) /\ \A i \in 2..4 : avg(i - 1) <= avg(i)
        BY <2>2, <2>3, <2>4
  <2> QED  BY <2>5 DEF avg
<1>6. CASE n >= 4
  <2>1. q >= 1 /\ q <= n /\ 2 * q <= n /\ 3 * q + 1 <= n
        BY <1>2, <1>6
  <2>2. /\ Gas!NthGroup(s, 1) = SubSeq(s, 1, q) /\ Gas!NthGroup(s, 2) = SubSeq(s, q + 1, 2 * q)
        /\ Gas!NthGroup(s, 3) = SubSeq(s, 2 * q + 1, 3 * q) /\ Gas!NthGroup(s, 4) = SubSeq(s, 3 * q + 1, n)
    <3>1. Gas!AtLeast(1, q) = q
          BY <2>1, AtMostIs
    <3>2. Gas!NthGroup(s, 1) = SubSeq(s, 1, q)
      <4>1. PICK at \in Nat, to \in Nat : at = (1 - 1) * q /\ at = 0 /\ to = at + q
            OBVIOUS
      <4>2. Gas!NthGroup(s, 1) = SubSeq(s, at + 1, IF 1 = 4 /\ n >= 4 THEN n ELSE Gas!AtMost(to, n))
            BY <1>1, <1>2, <3>1, <4>1, GroupIs, SMTT(30)
      <4>3. (IF 1 = 4 /\ n >= 4 THEN n ELSE Gas!AtMost(to, n)) = q
            BY <1>6, <2>1, <4>1, AtMostIs
      <4> QED  BY <4>1, <4>2, <4>3
    <3>3. Gas!NthGroup(s, 2) = SubSeq(s, q + 1, 2 * q)
      <4>1. PICK at \in Nat, to \in Nat : at = (2 - 1) * q /\ at = q /\ to = at + q
            OBVIOUS
      <4>2. Gas!NthGroup(s, 2) = SubSeq(s, at + 1, IF 2 = 4 /\ n >= 4 THEN n ELSE Gas!AtMost(to, n))
            BY <1>1, <1>2, <3>1, <4>1, GroupIs, SMTT(30)
      <4>3. (IF 2 = 4 /\ n >= 4 THEN n ELSE Gas!AtMost(to, n)) = 2 * q
            BY <1>6, <2>1, <4>1, AtMostIs
      <4> QED  BY <4>1, <4>2, <4>3
    <3>4. Gas!NthGroup(s, 3) = SubSeq(s, 2 * q + 1, 3 * q)
      <4>1. PICK at \in Nat, to \in Nat : at = (3 - 1) * q /\ at = 2 * q /\ to = at + q
            OBVIOUS
      <4>2. Gas!NthGroup(s, 3) = SubSeq(s, at + 1, IF 3 = 4 /\ n >= 4 THEN n ELSE Gas!AtMost(to, n))
        <5>1. PICK i : i = 3
              OBVIOUS
        <5>2. Gas!NthGroup(s, i) = SubSeq(s, (i - 1) * q + 1, IF i = 4 /\ n >= 4 THEN n
                                           ELSE Gas!AtMost((i - 1) * q + Gas!AtLeast(1, q), n))
              BY <1>1, <1>2, GroupIs
        <5> QED  BY <3>1, <4>1, <5>1, <5>2
      <4>3. (IF 3 = 4 /\ n >= 4 THEN n ELSE Gas!AtMost(to, n)) = 3 * q
            BY <1>6, <2>1, <4>1, AtMostIs
      <4> QED  BY <4>1, <4>2, <4>3
    <3>5. Gas!NthGroup(s, 4) = SubSeq(s, 3 * q + 1, n)
      <4>1. PICK at \in Nat, to \in Nat : at = (4 - 1) * q /\ at = 3 * q /\ to = at + q
            OBVIOUS
      <4>2. Gas!NthGroup(s, 4) = SubSeq(s, at + 1, IF 4 = 4 /\ n >= 4 THEN n ELSE Gas!AtMost(to, n))
        <5>1. PICK i : i = 4
              OBVIOUS
        <5>2. Gas!NthGroup(s, i) = SubSeq(s, (i - 1) * q + 1, IF i = 4 /\ n >= 4 THEN n
                                           ELSE Gas!AtMost((i - 1) * q + Gas!AtLeast(1, q), n))
              BY <1>1, <1>2, GroupIs
        <5> QED  BY <3>1, <4>1, <5>1, <5>2
      <4>3. (IF 4 = 4 /\ n >= 4 THEN n ELSE Gas!AtMost(to, n)) = n
            BY <1>6, <2>1, <4>1, AtMostIs
      <4> QED  BY <4>1, <4>2, <4>3
    <3> QED  BY <3>2, <3>3, <3>4, <3>5
  <2>3. avg(1) \in Nat /\ avg(1) <= s[q]
    <3>1. 1 \in 1..Len(s) /\ q \in 1..Len(s)
          BY <1>1, <2>1
    <3> QED  BY <2>2, <3>1, AverageIsBetween
  <2>4. avg(2) \in Nat /\ s[q + 1] <= avg(2) /\ avg(2) <= s[2 * q]
    <3>1. q + 1 \in 1..Len(s) /\ 2 * q \in (q + 1)..Len(s)
          BY <1>1, <2>1
    <3> QED  BY <2>2, <3>1, AverageIsBetween
  <2>5. avg(3) \in Nat /\ s[2 * q + 1] <= avg(3) /\ avg(3) <= s[3 * q]
    <3>1. 2 * q + 1 \in 1..Len(s) /\ 3 * q \in (2 * q + 1)..Len(s)
          BY <1>1, <2>1
    <3> QED  BY <2>2, <3>1, AverageIsBetween
  <2>6. avg(4) \in Nat /\ s[3 * q + 1] <= avg(4)
    <3>1. 3 * q + 1 \in 1..Len(s) /\ n \in (3 * q + 1)..Len(s)
          BY <1>1, <2>1
    <3> QED  BY <2>2, <3>1, AverageIsBetween
  <2>7. /\ s[q] <= s[q + 1] /\ s[2 * q] <= s[2 * q + 1] /\ s[3 * q] <= s[3 * q + 1]
        /\ {s[q], s[q + 1], s[2 * q], s[2 * q + 1], s[3 * q], s[3 * q + 1]} \subseteq Nat
    <3>1. {q, q + 1, 2 * q, 2 * q + 1, 3 * q, 3 * q + 1} \subseteq 1..Len(s)
          BY <1>1, <2>1
    <3>2. q <= q + 1 /\ 2 * q <= 2 * q + 1 /\ 3 * q <= 3 * q + 1
          OBVIOUS
    <3>3. s[q] <= s[q + 1] /\ s[2 * q] <= s[2 * q + 1] /\ s[3 * q] <= s[3 * q + 1]
          BY <3>1, <3>2 DEF Sorted
    <3>4. \A i \in 1..Len(s) : s[i] \in Nat
          BY <1>3
    <3> QED  BY <3>1, <3>3, <3>4
  <2> HIDE DEF avg
  <2>8. avg(1) <= avg(2) /\ avg(2) <= avg(3) /\ avg(3) <= avg(4)
        BY <2>3, <2>4, <2>5, <2>6, <2>7
  <2>9. /\ \A i \in 1..4 : i = 1 \/ i = 2 \/ i = 3 \/ i = 4
        /\ \A i \in 2..4 : (i = 2 /\ i - 1 = 1) \/ (i = 3 /\ i - 1 = 2) \/ (i = 4 /\ i - 1 = 3)
        OBVIOUS
  <2>10. (\A i \in 1..4 : avg(i) \in Nat) /\ \A i \in 2..4 : avg(i - 1) <= avg(i)
        BY <2>3, <2>4, <2>5, <2>6, <2>8, <2>9
  <2> QED  BY <2>10 DEF avg
<1> QED  BY <1>1, <1>4, <1>5, <1>6

\* A tip is something, and an eighth more than the one before it.
LEMMA TipIsMore ==
    ASSUME NEW tips, Sorted(tips), NEW i \in 1..4, NEW previous \in Nat
    PROVE  /\ Gas!TipAfter(tips, i, previous) \in Nat \ {0}
           /\ Gas!TipAfter(tips, i, previous) >= previous + previous \div 8
<1>1. PICK d \in {2, 8} : d = IF i = 4 THEN 2 ELSE 8
      OBVIOUS
<1>2. PICK e \in Nat, f \in Nat : e = previous \div 8 /\ f = previous \div d /\ e <= f
  <2>2. previous \div 8 <= previous \div d
        BY QuotientBySmaller
  <2> QED  BY <2>2, Quotient
<1>3. PICK avg \in Nat : avg = Gas!Average(Gas!NthGroup(tips, i))
      BY AveragesRise
<1>4. PICK min \in Nat \ {0} : min = MinTip
      BY GasAssumed
<1>5. PICK a \in Nat \ {0} : a = Gas!AtLeast(avg, min)
      BY AtMostIs
<1>6. PICK b \in Nat : b = previous + f
      BY <1>2
<1> QED  BY <1>1, <1>2, <1>3, <1>4, <1>5, <1>6, AtMostIs DEF Gas!TipAfter, Gas!Ape

\* The tips are computed one after the other.
LEMMA TipsAre ==
    ASSUME NEW tips, Sorted(tips)
    PROVE  /\ \A i \in 1..4 : Gas!Tips(tips)[i] \in Nat \ {0}
           /\ \A i \in 2..4 : Gas!Tips(tips)[i] >= Gas!Tips(tips)[i - 1] + Gas!Tips(tips)[i - 1] \div 8
<1> DEFINE Is(t) == t = [i \in 1..4 |-> Gas!TipAfter(tips, i, IF i = 1 THEN 0 ELSE t[i - 1])]
<1>1. PICK t : Is(t)
  <2>1. PICK a : a = Gas!TipAfter(tips, 1, 0)
        OBVIOUS
  <2>2. PICK b : b = Gas!TipAfter(tips, 2, a)
        OBVIOUS
  <2>3. PICK c : c = Gas!TipAfter(tips, 3, b)
        OBVIOUS
  <2>4. PICK d : d = Gas!TipAfter(tips, 4, c)
        OBVIOUS
  <2>5. PICK v : v = [i \in 1..4 |-> IF i = 1 THEN a ELSE IF i = 2 THEN b ELSE IF i = 3 THEN c ELSE d]
        OBVIOUS
  <2>7. ASSUME NEW i \in 1..4 PROVE v[i] = Gas!TipAfter(tips, i, IF i = 1 THEN 0 ELSE v[i - 1])
        BY <2>1, <2>2, <2>3, <2>4, <2>5
  <2> QED  BY <2>5, <2>7
<1>3. PICK u : u = Gas!Tips(tips) /\ Is(u)
      BY <1>1 DEF Gas!Tips, Gas!Speeds
<1>4. /\ u[1] = Gas!TipAfter(tips, 1, 0) /\ u[2] = Gas!TipAfter(tips, 2, u[1])
      /\ u[3] = Gas!TipAfter(tips, 3, u[2]) /\ u[4] = Gas!TipAfter(tips, 4, u[3])
      BY <1>3
<1> HIDE DEF Is
<1>5. u[1] \in Nat \ {0}
      BY <1>4, TipIsMore
<1>6. u[2] \in Nat \ {0} /\ u[2] >= u[1] + u[1] \div 8
      BY <1>4, <1>5, TipIsMore
<1>7. u[3] \in Nat \ {0} /\ u[3] >= u[2] + u[2] \div 8
      BY <1>4, <1>6, TipIsMore
<1>8. u[4] \in Nat \ {0} /\ u[4] >= u[3] + u[3] \div 8
      BY <1>4, <1>7, TipIsMore
<1>10. ASSUME NEW i \in 2..4 PROVE u[i] >= u[i - 1] + u[i - 1] \div 8
       BY <1>6, <1>7, <1>8
<1> QED  BY <1>3, <1>5, <1>6, <1>7, <1>8, <1>10

\* The base fee that is expected is a fee when there was one, and a faster speed expects no less.
LEMMA BaseFeeGrows ==
    ASSUME NEW block \in Blocks, block.baseFee > 0
    PROVE  /\ \A i \in 1..4 : Gas!BaseFee(block, i) \in Nat \ {0}
           /\ \A i \in 2..4 : Gas!BaseFee(block, i - 1) <= Gas!BaseFee(block, i)
<1>1. PICK base \in Nat \ {0}, target \in Nat \ {0}, used \in Nat :
          base = block.baseFee /\ target = block.gasTarget /\ used = block.gasUsed
      BY GasAssumed
<1>2. PICK min \in Nat : min = Gas!MinBaseFee(block)
      BY <1>1, GasAssumed DEF Gas!MinBaseFee
<1>3. PICK e \in Nat \ {0} : e = Gas!ExpectedBaseFee(block)
  <2>1. PICK above \in Int : above = used - target
        OBVIOUS
  <2>2. PICK delta : delta = (base * above) \div (target * 8)
        OBVIOUS
  <2>3. PICK more \in Nat : more = IF above > 0 THEN Gas!AtLeast(delta, 1) ELSE 0
    <3>1. CASE above > 0
      <4>1. PICK p \in Nat, d \in Nat \ {0} : p = base * above /\ d = target * 8
            BY <3>1
      <4> QED  BY <2>2, <3>1, <4>1, AtMostIs, Quotient
    <3>2. CASE ~(above > 0)
          BY <3>2
    <3> QED  BY <3>1, <3>2
  <2>4. PICK sum \in Nat \ {0} : sum = base + more
        OBVIOUS
  <2> QED  BY <1>1, <1>2, <2>1, <2>2, <2>3, <2>4, AtMostIs DEF Gas!ExpectedBaseFee
<1> DEFINE extra(k) == (e * k * 500) \div 10000
<1>4. ASSUME NEW k \in Nat PROVE extra(k) \in Nat
  <2>1. PICK p \in Nat : p = e * k * 500
        OBVIOUS
  <2> QED  BY <2>1, Quotient
<1>5. ASSUME NEW k \in Nat, NEW l \in Nat, k <= l PROVE extra(k) <= extra(l)
  <2>1. PICK p \in Nat, q \in Nat : p = e * k /\ q = e * l /\ p <= q
        BY <1>5, ProductGrows
  <2>2. PICK r \in Nat, s \in Nat : r = p * 500 /\ s = q * 500 /\ r <= s
        BY <2>1
  <2> QED  BY <2>1, <2>2, QuotientGrows
<1>6. \A i \in 1..4 : Gas!BaseFee(block, i) = e + extra(i - 1) /\ i - 1 \in Nat
      BY <1>3 DEF Gas!BaseFee
<1> HIDE DEF extra
<1>7. \A i \in 1..4 : Gas!BaseFee(block, i) \in Nat \ {0}
  <2> SUFFICES ASSUME NEW i \in 1..4 PROVE Gas!BaseFee(block, i) \in Nat \ {0}
      OBVIOUS
  <2>1. PICK x \in Nat : x = extra(i - 1)
        BY <1>4, <1>6
  <2> QED  BY <1>6, <2>1
<1>8. ASSUME NEW i \in 2..4 PROVE Gas!BaseFee(block, i - 1) <= Gas!BaseFee(block, i)
  <2>1. PICK j \in 1..4 : j = i - 1 /\ i \in 1..4
        OBVIOUS
  <2>2. PICK k \in Nat, l \in Nat : k = j - 1 /\ l = i - 1 /\ k <= l
        BY <2>1
  <2>3. PICK x \in Nat, y \in Nat : x = extra(k) /\ y = extra(l) /\ x <= y
        BY <1>4, <1>5, <2>2
  <2> QED  BY <1>6, <2>1, <2>2, <2>3
<1> QED  BY <1>7, <1>8

\* What is recommended from a block.
LEMMA RecommendationsAre ==
    ASSUME NEW block \in Blocks, NEW ethPrice \in EthPrices
    PROVE  Recommended(Gas!Recommendations(block, ethPrice))
<1> DEFINE all == Gas!Recommendations(block, ethPrice)
<1>2. CASE block.baseFee > 0
  <2>1. PICK tips : tips = Gas!Tips(Gas!FilterOutliers(block.tips))
        OBVIOUS
  <2>2. /\ \A i \in 1..4 : tips[i] \in Nat \ {0}
        /\ \A i \in 2..4 : tips[i] >= tips[i - 1] + tips[i - 1] \div 8
        BY <2>1, FilteredIsSorted, TipsAre, GasAssumed
  <2>3. all = [i \in 1..4 |-> [price |-> Gas!BaseFee(block, i) + tips[i], tip |-> tips[i]]]
        BY <1>2, <2>1 DEF Gas!Recommendations, Gas!Speeds
  <2> HIDE DEF all
  <2>4. \A i \in 1..4 : all[i].price = Gas!BaseFee(block, i) + tips[i] /\ all[i].tip = tips[i]
        BY <2>3
  <2>5. ASSUME NEW i \in 1..4 PROVE all[i].price \in Nat \ {0}
    <3>1. PICK x \in Nat \ {0}, y \in Nat \ {0} : x = Gas!BaseFee(block, i) /\ y = tips[i]
          BY <1>2, <2>2, BaseFeeGrows
    <3> QED  BY <2>4, <3>1
  <2>6. ASSUME NEW i \in 2..4 PROVE all[i - 1].price <= all[i].price
    <3>1. PICK j \in 1..4 : j = i - 1 /\ i \in 1..4
          OBVIOUS
    <3>2. PICK x \in Nat, y \in Nat : x = Gas!BaseFee(block, j) /\ y = Gas!BaseFee(block, i) /\ x <= y
          BY <1>2, <3>1, BaseFeeGrows
    <3>3. PICK v \in Nat, w \in Nat : v = tips[j] /\ w = tips[i] /\ w >= v + v \div 8
          BY <2>2, <3>1
    <3> QED  BY <2>4, <3>1, <3>2, <3>3, Quotient
  <2>7. ASSUME NEW i \in 2..4 PROVE all[i].tip >= all[i - 1].tip + all[i - 1].tip \div 8
        BY <2>2, <2>4
  <2> QED  BY <2>5, <2>6, <2>7 DEF Recommended, Rising, all
<1>3. CASE ~(block.baseFee > 0)
  <2>1. PICK prices : prices = Gas!FilterOutliers(block.prices) /\ Sorted(prices)
        BY FilteredIsSorted, GasAssumed
  <2>2. PICK least \in Nat \ {0} : least = IF ethPrice = None THEN MinGas ELSE ethPrice
        BY GasAssumed
  <2>3. all = [i \in 1..4 |-> [price |-> Gas!AtLeast(Gas!Average(Gas!NthGroup(prices, i)), least), tip |-> None]]
        BY <1>3, <2>1, <2>2 DEF Gas!Recommendations, Gas!Speeds
  <2> HIDE DEF all
  <2>4. \A i \in 1..4 : /\ all[i].price = Gas!AtLeast(Gas!Average(Gas!NthGroup(prices, i)), least)
                        /\ all[i].tip = None
        BY <2>3
  <2>5. ASSUME NEW i \in 1..4 PROVE all[i].price \in Nat \ {0}
    <3>1. PICK x \in Nat : x = Gas!Average(Gas!NthGroup(prices, i))
          BY <2>1, AveragesRise
    <3> QED  BY <2>4, <3>1, AtMostIs
  <2>6. ASSUME NEW i \in 2..4 PROVE all[i - 1].price <= all[i].price
    <3>1. PICK j \in 1..4 : j = i - 1 /\ i \in 1..4
          OBVIOUS
    <3>2. PICK x \in Nat, y \in Nat : /\ x = Gas!Average(Gas!NthGroup(prices, j))
                                      /\ y = Gas!Average(Gas!NthGroup(prices, i)) /\ x <= y
          BY <2>1, <3>1, AveragesRise
    <3> QED  BY <2>4, <3>1, <3>2, AtMostIs
  <2> QED  BY <2>3, <2>4, <2>5, <2>6 DEF Recommended, Rising, all
<1> QED  BY <1>2, <1>3

\* The options that there are are good ones.
LEMMA OfferedIsGood == \A fee \in Offered : GoodOption(fee)
BY GasAssumed DEF Offered

\* The identifiers of the options, and the first option with one.
LEMMA FirstIsOffered ==
    /\ DOMAIN Gas!FirstWith = {Gas!Identifier(fee) : fee \in Offered}
    /\ \A id \in DOMAIN Gas!FirstWith : Gas!FirstWith[id] \in Offered
<1>2. DOMAIN Gas!FirstWith = {Gas!Identifier(FeeOptions[k]) : k \in DOMAIN FeeOptions}
      BY DEF Gas!FirstWith
<1>4. ASSUME NEW id \in DOMAIN Gas!FirstWith PROVE Gas!FirstWith[id] \in Offered
  <2>1. Gas!Shares(id) \subseteq DOMAIN FeeOptions /\ Gas!Shares(id) # {}
        BY <1>2, <1>4 DEF Gas!Shares
  <2>2. \E x \in Gas!Shares(id) : \A y \in Gas!Shares(id) : x <= y
    <3>1. Gas!Shares(id) \subseteq Nat
          BY <2>1, GasAssumed
    <3> QED  BY <2>1, <3>1, LeastNumber
  <2> QED  BY <1>2, <1>4, <2>1, <2>2 DEF Offered, Gas!Min, Gas!FirstWith
<1> QED  BY <1>2, <1>4 DEF Offered

\* The speeds that there are, for every identifier.
GoodFees(all) ==
    /\ DOMAIN all = {Gas!Identifier(fee) : fee \in Offered}
    /\ \A id \in DOMAIN all : all[id] = <<>> \/ GoodSpeeds(all[id])

\* What there is of prices and choices.
GasTypes ==
    /\ attempts \in {None} \cup 0..(MaxAttempts - 1) /\ paceOfFee \in 1..4
    /\ feePhase \in {None, "UnableToSign", "ReadyToSign", "InProgress", "Done"}
    /\ recommended # None => Recommended(recommended)
    /\ bundlerGasPrices # None => bundlerGasPrices \in BundlerPrices
    /\ paysWith # None => paysWith \in Offered
    /\ feeSpeeds # None => GoodFees(feeSpeeds)

\* What is paid is what the chosen speed of the option costs.
GasPayment ==
    /\ gasFeePayment # None =>
          /\ gasFeePayment \in [option : Offered, speed : 1..4, amount : Nat, price : Nat]
          /\ Gas!HasSpeedsOf(feeSpeeds, gasFeePayment.option)
          /\ gasFeePayment.amount
                 = feeSpeeds[Gas!Identifier(gasFeePayment.option)][gasFeePayment.speed].amount
    /\ feePhase \in {"ReadyToSign", "InProgress", "Done"} => gasFeePayment # None

\* The fee is a call of the operation where a relayer or a paymaster wants one.
GasCall ==
    /\ feePhase = "InProgress" =>
          IF paymasterCalls = None THEN feeCall = None
          ELSE gasFeePayment.option.how = "byBundler" /\ feeCall.amount = gasFeePayment.amount
    /\ feePhase = "Done" =>
          IF gasFeePayment.option.how = "byOtherEOA" THEN feeCall = None
          ELSE feeCall.amount = gasFeePayment.amount

GasInv == GasTypes /\ GasPayment /\ GasCall

\* The constructor knows no prices.
LEMMA GasInvInit == ASSUME Gas!Init PROVE GasInv
<1> QED  BY GasAssumed DEF GasInv, GasTypes, GasPayment, GasCall, Gas!Init, SignStatuses

\* The speeds of every identifier are good ones.
LEMMA SpeedsForAreGood ==
    ASSUME NEW prices, Recommended(prices), NEW bundler, bundler # None => bundler \in BundlerPrices
    PROVE  GoodFees([id \in DOMAIN Gas!FirstWith |-> Gas!SpeedsOf(Gas!FirstWith[id], prices, bundler)])
<1> QED  BY FirstIsOffered, OfferedIsGood, SpeedsAreGood, GasAssumed DEF GoodFees, Recommended

\* A payment for a speed of an option that has speeds.
LEMMA PaymentIs ==
    ASSUME NEW all, all # None => GoodFees(all), NEW fee, fee # None => fee \in Offered, NEW i \in 1..4,
           Gas!PaymentFor(all, fee, i) # None
    PROVE  /\ Gas!HasSpeedsOf(all, fee) /\ fee \in Offered
           /\ Gas!PaymentFor(all, fee, i) \in [option : Offered, speed : 1..4, amount : Nat, price : Nat]
           /\ Gas!PaymentFor(all, fee, i).option = fee /\ Gas!PaymentFor(all, fee, i).speed = i
           /\ Gas!PaymentFor(all, fee, i).amount = all[Gas!Identifier(fee)][i].amount
<1>4. PICK amount \in Nat, price \in Nat :
          amount = all[Gas!Identifier(fee)][i].amount /\ price = all[Gas!Identifier(fee)][i].price
      BY DEF GoodSpeeds, GoodFees, Gas!HasSpeedsOf, Gas!PaymentFor
<1> QED  BY <1>4 DEF Gas!HasSpeedsOf, Gas!PaymentFor

\* An update with what there is then keeps what is paid what is shown.
LEMMA GasUpdated ==
    ASSUME GasInv, attempts' \in {None} \cup 0..(MaxAttempts - 1),
           recommended' # None => Recommended(recommended'),
           bundlerGasPrices' # None => bundlerGasPrices' \in BundlerPrices,
           paysWith' # None => paysWith' \in Offered, paceOfFee' \in 1..4,
           feeSpeeds' = Gas!SpeedsFor(recommended', bundlerGasPrices'),
           gasFeePayment' = Gas!PaymentFor(feeSpeeds', paysWith', paceOfFee'),
           feePhase' = IF gasFeePayment' # None /\ paysWith'.available >= gasFeePayment'.amount
                       THEN "ReadyToSign" ELSE "UnableToSign"
    PROVE  GasInv'
<1>1. feeSpeeds' # None => GoodFees(feeSpeeds')
  <2>1. CASE recommended' = None
        BY <2>1 DEF GasInv, GasTypes, Gas!SpeedsFor
  <2>2. CASE recommended' # None
        BY <2>2, SpeedsForAreGood DEF Gas!SpeedsFor
  <2> QED  BY <2>1, <2>2
<1>3. ASSUME gasFeePayment' # None
      PROVE  /\ gasFeePayment' \in [option : Offered, speed : 1..4, amount : Nat, price : Nat]
             /\ Gas!HasSpeedsOf(feeSpeeds', paysWith') /\ gasFeePayment'.option = paysWith'
             /\ gasFeePayment'.speed = paceOfFee'
             /\ gasFeePayment'.amount = feeSpeeds'[Gas!Identifier(paysWith')][paceOfFee'].amount
      BY <1>1, <1>3, PaymentIs
<1> QED  BY <1>1, <1>3 DEF GasInv, GasTypes, GasPayment, GasCall

\* What is chosen by default is a speed.
LEMMA DefaultIsASpeed == ASSUME GasInv, NEW fee PROVE Gas!DefaultPace(fee) \in 1..4
<1> DEFINE enabled == {i \in 1..4 : ~feeSpeeds[Gas!Identifier(fee)][i].disabled}
<1>1. Gas!DefaultPace(fee) = IF paysWith # None \/ ~Gas!HasSpeedsOf(feeSpeeds, fee) THEN paceOfFee
                             ELSE IF 3 \in enabled THEN 3 ELSE IF enabled = {} THEN 1 ELSE Gas!Max(enabled)
      BY DEF Gas!DefaultPace, Gas!Speeds
<1>2. enabled \subseteq 1..4
      OBVIOUS
<1> HIDE DEF enabled
<1>3. ASSUME enabled # {} PROVE Gas!Max(enabled) \in enabled
  <2>1. \E x \in enabled : \A y \in enabled : x >= y
    <3>1. \A i \in enabled : i = 1 \/ i = 2 \/ i = 3 \/ i = 4
          BY <1>2
    <3>2. CASE 4 \in enabled
          BY <3>1, <3>2
    <3>3. CASE 4 \notin enabled /\ 3 \in enabled
          BY <3>1, <3>3
    <3>4. CASE {3, 4} \cap enabled = {} /\ 2 \in enabled
          BY <3>1, <3>4
    <3>5. CASE {2, 3, 4} \cap enabled = {}
          BY <1>3, <3>1, <3>5
    <3> QED  BY <3>2, <3>3, <3>4, <3>5
  <2> QED  BY <2>1 DEF Gas!Max
<1>5. enabled # {} => Gas!Max(enabled) \in 1..4
      BY <1>2, <1>3
<1> QED  BY <1>1, <1>5 DEF GasInv, GasTypes

\* What is known and paid stays as it is, whatever happens to the attempts.
LEMMA GasStays ==
    ASSUME GasInv, attempts' \in {None} \cup 0..(MaxAttempts - 1),
           UNCHANGED <<recommended, bundlerGasPrices, feeSpeeds, paysWith, paceOfFee, gasFeePayment, feeCall,
                       feePhase, paymasterCalls>>
    PROVE  GasInv'
<1> QED  BY DEF GasInv, GasTypes, GasPayment, GasCall

\* Every action keeps what is paid what is shown.
LEMMA GasInvNext == ASSUME GasInv, [Gas!Next]_gasVars PROVE GasInv'
<1>1. attempts \in {None} \cup 0..(MaxAttempts - 1) /\ None \notin Nat
      BY GasAssumed DEF GasInv, GasTypes
<1>2. ASSUME NEW prices, prices = None \/ Recommended(prices),
             NEW bundler, bundler = None \/ bundler \in BundlerPrices,
             NEW fee, fee = None \/ fee \in Offered, NEW i \in 1..4, Gas!Update(prices, bundler, fee, i),
             attempts' \in {None} \cup 0..(MaxAttempts - 1), UNCHANGED <<feeCall, paymasterCalls>>
      PROVE  GasInv'
  <2>1. CASE Gas!IsFrozen
        BY <1>2, <2>1, GasStays DEF Gas!Update, Gas!fees
  <2>2. CASE ~Gas!IsFrozen
        BY <1>2, <2>2, GasUpdated DEF Gas!Update
  <2> QED  BY <2>1, <2>2
<1>3. /\ recommended = None \/ Recommended(recommended)
      /\ bundlerGasPrices = None \/ bundlerGasPrices \in BundlerPrices
      /\ paysWith = None \/ paysWith \in Offered
      /\ paceOfFee \in 1..4
      BY DEF GasInv, GasTypes
<1>4. CASE Gas!FetchGasPrices
      BY <1>4, GasStays, GasAssumed DEF Gas!FetchGasPrices, Gas!fees
<1>5. CASE Gas!BlockFails
      BY <1>1, <1>5, GasStays, GasAssumed DEF Gas!BlockFails, Gas!fees
<1>6. ASSUME NEW b \in Blocks, NEW p \in EthPrices, Gas!BlockArrives(b, p) PROVE GasInv'
      BY <1>2, <1>3, <1>6, RecommendationsAre DEF Gas!BlockArrives
<1>7. ASSUME NEW p \in BundlerPrices, Gas!EstimationByBundler(p) PROVE GasInv'
      BY <1>1, <1>2, <1>3, <1>7 DEF Gas!EstimationByBundler
<1>8. ASSUME NEW k \in DOMAIN FeeOptions, Gas!SelectOption(FeeOptions[k]) PROVE GasInv'
      BY <1>1, <1>2, <1>3, <1>8, DefaultIsASpeed DEF Gas!SelectOption, Offered
<1>9. ASSUME NEW i \in 1..4, Gas!SelectPace(i) PROVE GasInv'
      BY <1>1, <1>2, <1>3, <1>9 DEF Gas!SelectPace
<1>10. CASE Gas!SignFee
       BY <1>10 DEF GasInv, GasTypes, GasPayment, Gas!SignFee, Gas!fees, GasCall
<1>11. CASE Gas!SignExecute
       BY <1>11, OfferedIsGood DEF GasInv, GasTypes, GasPayment, GasCall, Gas!SignExecute, Gas!fees,
          GoodOption, Gas!FeeCall
<1>12. ASSUME feePhase = "InProgress", feePhase' = "InProgress", NEW prices \in BundlerPrices,
              \/ gasFeePayment' = gasFeePayment
              \/ gasFeePayment' = [gasFeePayment EXCEPT !.price = prices[paceOfFee].fee],
              bundlerGasPrices' = prices, UNCHANGED <<attempts, recommended, feeSpeeds, paysWith, paceOfFee>>
       PROVE  /\ GasTypes' /\ GasPayment' /\ gasFeePayment'.option = gasFeePayment.option
              /\ gasFeePayment'.amount = gasFeePayment.amount
  <2>3. prices[paceOfFee].fee \in Nat
        BY <1>3, GasAssumed DEF GoodBundler
  <2>4. /\ gasFeePayment' \in [option : Offered, speed : 1..4, amount : Nat, price : Nat]
        /\ gasFeePayment'.option = gasFeePayment.option /\ gasFeePayment'.speed = gasFeePayment.speed
        /\ gasFeePayment'.amount = gasFeePayment.amount
        BY <1>12, <2>3 DEF GasInv, GasPayment
  <2> QED  BY <1>12, <2>4, GasAssumed DEF GasInv, GasTypes, GasPayment
<1>13. ASSUME NEW p \in BundlerPrices, Gas!BuildForBundler(p) PROVE GasInv'
       BY <1>1, <1>12, <1>13 DEF GasInv, Gas!BuildForBundler, GasCall, Gas!FeeCall
<1>14. ASSUME NEW p \in BundlerPrices, Gas!PaymasterRefuses(p) PROVE GasInv'
  <2>2. CASE paymasterCalls = 0
        BY <1>1, <1>12, <1>14, <2>2 DEF GasInv, Gas!PaymasterRefuses, GasCall
  <2>3. CASE paymasterCalls # 0
        BY <1>14, <2>3 DEF GasInv, GasTypes, GasPayment, Gas!PaymasterRefuses, GasCall
  <2> QED  BY <2>2, <2>3
<1>15. CASE Gas!PaymasterPays
       BY <1>15 DEF GasInv, GasTypes, GasPayment, Gas!PaymasterPays, Gas!fees, GasCall
<1>16. CASE Gas!FeeIsNotPaid
       BY <1>16 DEF GasInv, GasTypes, GasPayment, Gas!FeeIsNotPaid, Gas!IsFrozen, Gas!fees, GasCall
<1>17. CASE UNCHANGED gasVars
       BY <1>1, <1>17, GasStays DEF gasVars
<1> QED
  BY <1>4, <1>5, <1>6, <1>7, <1>8, <1>9, <1>10, <1>11, <1>13, <1>14, <1>15, <1>16, <1>17 DEF Gas!Next, Gas!Speeds

\* The properties.
LEMMA GasInvKeeps == ASSUME GasInv PROVE Gas!TypeOK /\ Gas!FasterIsDearer /\ Gas!PaysWhatIsShown
<1>1. Gas!TypeOK
      BY DEF GasInv, GasTypes, Gas!TypeOK, Gas!Speeds, GasPayment, Gas!IsFrozen
<1>2. recommended # None => \A i \in 2..4 :
          /\ recommended[i].price >= recommended[i - 1].price
          /\ recommended[i].tip # None =>
                recommended[i].tip >= recommended[i - 1].tip + recommended[i - 1].tip \div 8
  <2> SUFFICES ASSUME recommended # None, NEW i \in 2..4
               PROVE  /\ recommended[i].price >= recommended[i - 1].price
                      /\ recommended[i].tip # None =>
                            recommended[i].tip >= recommended[i - 1].tip + recommended[i - 1].tip \div 8
      OBVIOUS
  <2> QED  BY DEF Recommended, Rising, GasInv, GasTypes
<1>3. feeSpeeds # None => \A id \in DOMAIN feeSpeeds : \A i \in DOMAIN feeSpeeds[id] :
          /\ feeSpeeds[id][i].amount > 0
          /\ i > 1 => /\ feeSpeeds[id][i].amount >= feeSpeeds[id][i - 1].amount
                      /\ feeSpeeds[id][i - 1].disabled => feeSpeeds[id][i].disabled
  <2> SUFFICES ASSUME feeSpeeds # None, NEW id \in DOMAIN feeSpeeds, NEW i \in DOMAIN feeSpeeds[id]
               PROVE  /\ feeSpeeds[id][i].amount > 0
                      /\ i > 1 => /\ feeSpeeds[id][i].amount >= feeSpeeds[id][i - 1].amount
                                  /\ feeSpeeds[id][i - 1].disabled => feeSpeeds[id][i].disabled
      OBVIOUS
  <2>1. PICK list : list = feeSpeeds[id]
        OBVIOUS
  <2>3. GoodSpeeds(list)
        BY <2>1 DEF GasInv, GasTypes, GoodFees
  <2>5. CASE i > 1
        BY <2>1, <2>3, <2>5 DEF GoodSpeeds
  <2>6. CASE ~(i > 1)
        BY <2>1, <2>3, <2>6 DEF GoodSpeeds
  <2> QED  BY <2>5, <2>6
<1>4. Gas!PaysWhatIsShown
  <2> SUFFICES ASSUME feePhase = "Done" PROVE Gas!PaysWhatIsShown
      BY DEF Gas!PaysWhatIsShown
  <2> QED  BY DEF Gas!PaysWhatIsShown, GasInv, GasPayment, GasCall
<1> QED  BY <1>1, <1>2, <1>3, <1>4 DEF Gas!FasterIsDearer

-----------------------------------------------------------------------------
(* All the parts together.  A step is one of the part that a behaviour is  *)
(* about, and leaves the variables of the others as they are.              *)

ScreensInv ==
    /\ SwapInv
    /\ part = "railgun" => RailInv /\ RailTypes
    /\ part = "transfer" => SendInv /\ SendTypes
    /\ part = "form" => Form!FetchingIsCurrent /\ FormTypes
    /\ part = "fees" => FeesInv /\ FeesOwn
    /\ part = "message" => MsgInv
    /\ part = "pools" => PoolsInv /\ PoolsTypes
    /\ part = "email" => MailInv /\ MailTypes
    /\ part = "plugin" => PluginInv /\ PluginOwn
    /\ part = "pluginV1" => PluginV1Inv /\ V1Types
    /\ part = "tokens" => TokInv /\ ListTypes
    /\ part = "routes" => RouteInv /\ RouteTypes
    /\ part = "prices" => GasInv

\* At first every part is as its own module starts it.
LEMMA ScreensInvInit == ASSUME Init PROVE ScreensInv
<1>1. SwapInit
      BY DEF Init, OthersIdle
<1>2. /\ part = "railgun" => Rail!Init
      /\ part = "transfer" => Send!Init
      /\ part = "form" => Form!Init
      /\ part = "fees" => Fees!Init
      /\ part = "pools" => Pools!Init
      /\ part = "email" => Mail!Init
      /\ part = "plugin" => Plugin!Init
      /\ part = "pluginV1" => PluginV1!Init
      /\ part = "tokens" => Tok!Init
      /\ part = "routes" => Route!Init
      /\ part = "message" => Msg!Init
      /\ part = "prices" => Gas!Init
      BY DEF Init
<1> QED  BY <1>1, <1>2, SwapInvInit, RailInvInit, SendInvInit, FormInvInit, FeesInvInit, PoolsInvInit,
            MailInvInit, PluginInvInit, PluginV1InvInit, TokInvInit, RouteInvInit, FeesOwnInit, MsgInvInit,
            PluginOwnInit, GasInvInit, RailTypesInit, SendTypesInit, FormTypesInit, PoolsTypesInit,
            MailTypesInit, V1TypesInit, ListTypesInit, RouteTypesInit DEF ScreensInv

\* A step of one part keeps the invariant of that part, and those of the others.
LEMMA ScreensInvNext == ASSUME ScreensInv, [Next]_vars PROVE ScreensInv'
<1>1. part' = part
      BY DEF Next, OthersUnchanged, vars
<1>2. [SwapNext]_swapVars
      BY DEF Next, OthersUnchanged, vars
<1>3. /\ part = "railgun" => [Rail!Next]_railVars
      /\ part = "transfer" => [Send!Next]_sendVars
      /\ part = "form" => [Form!Next]_formVars
      /\ part = "fees" => [Fees!Next]_feesVars
      /\ part = "pools" => [Pools!Next]_poolsVars
      /\ part = "email" => [Mail!Next]_mailVars
      /\ part = "plugin" => [Plugin!Next]_pluginVars
      /\ part = "pluginV1" => [PluginV1!Next]_pluginV1Vars
      /\ part = "tokens" => [Tok!Next]_tokVars
      /\ part = "routes" => [Route!Next]_routeVars
      /\ part = "message" => [Msg!Next]_msgVars
      /\ part = "prices" => [Gas!Next]_gasVars
      BY DEF Next, vars
<1>4. part = "plugin" => PluginInv' /\ PluginOwn'
      BY <1>3, PluginOwnNext, PluginInvNext DEF ScreensInv
<1>5. part = "fees" => FeesInv' /\ FeesOwn'
      BY <1>3, FeesInvNext, FeesOwnNext DEF ScreensInv
<1>6. /\ part = "railgun" => RailTypes'
      /\ part = "transfer" => SendTypes'
      /\ part = "form" => FormTypes'
      /\ part = "pools" => PoolsTypes'
      /\ part = "email" => MailTypes'
      /\ part = "pluginV1" => V1Types'
      /\ part = "tokens" => ListTypes'
      /\ part = "routes" => RouteTypes'
      BY <1>3, RailTypesNext, SendTypesNext, FormTypesNext, PoolsTypesNext, MailTypesNext, V1TypesNext,
         ListTypesNext, RouteTypesNext DEF ScreensInv
<1> QED  BY <1>1, <1>2, <1>3, <1>4, <1>5, <1>6, SwapInvNext, RailInvNext, SendInvNext, FormInvNext, PoolsInvNext,
            MailInvNext, PluginV1InvNext, TokInvNext, RouteInvNext, MsgInvNext, GasInvNext DEF ScreensInv

\* For all forms, chains, lists, tokens, owners and bounds: a quote, a list of tokens or an estimate that
\* is shown as loading is being fetched, by the call that was made last.
THEOREM LoadingIsFetched == Spec => []FetchingIsCurrent
<1>1. ScreensInv => FetchingIsCurrent
      BY PoolsSavedIsMined, TokKeepsPromises DEF ScreensInv, FetchingIsCurrent, SwapInv, FeesInv, PoolsInv
<1> QED  BY <1>1, ScreensInvInit, ScreensInvNext, PTL DEF Spec

\* However the user, the answers and the other controllers interleave, the controller of a screen is
\* estimated again and gas prices are fetched again; and nothing waits for what has ended, neither the
\* plugins for private operations nor the email vault for a method that no longer polls.
THEOREM LoopsGoOn == Spec => []LoopsAreKept
<1>1. ScreensInv => LoopsAreKept
      BY PluginKeepsPromises, PluginV1KeepsPromises, MailIsReady
      DEF ScreensInv, LoopsAreKept, SwapInv, RailInv, SendInv, FeesInv
<1> QED  BY <1>1, ScreensInvInit, ScreensInvNext, PTL DEF Spec

\* Whatever was relayed is shown as successful only once it is saved, with the status that was mined, and
\* is sent once; a route of a swap shows how its operation ended, through polls, new attempts and restarts.
THEOREM RelaysStayRecorded == Spec => []RelaysAreRecorded
<1>1. ScreensInv => RelaysAreRecorded
      BY PoolsSavedIsMined, PluginKeepsPromises, PluginV1KeepsPromises, RouteKeepsPromises
      DEF ScreensInv, RelaysAreRecorded, RailInv
<1> QED  BY <1>1, ScreensInvInit, ScreensInvNext, PTL DEF Spec

\* For all estimates, messages, accounts, blocks and prices: what leaves a screen is what it was for.  The
\* fee is paid with an option of the present estimate and is what was shown, a faster speed never costs
\* less per unit of gas, a dapp gets the signature of its own message, and a private operation is what was
\* asked for, by the instance of the selected account.
THEOREM WhatIsShownIsSigned == Spec => []SignsWhatIsShown
<1>1. ScreensInv => SignsWhatIsShown
      BY FeesOwnKeeps, MsgKeepsPromises, PluginOwnKeeps, GasInvKeeps DEF ScreensInv, SignsWhatIsShown
<1> QED  BY <1>1, ScreensInvInit, ScreensInvNext, PTL DEF Spec

\* The screens keep their types: among others, no form, quote, choice, payment, poll or list in flight is
\* of anything but the owners, chains, tokens, routes and numbers that there are, and the lists that are
\* held back, fetched or quoted are no more than the calls of the user.
THEOREM ScreensTypesHold == Spec => []ScreensTypeOK
<1>1. ScreensInv => ScreensTypeOK
      BY RailTypeOK, SendTypeOK, FormTypeOK, FeesOwnKeeps, MsgKeepsPromises, PoolsTypeOK, MailTypeOK,
         PluginOwnKeeps, PluginV1TypeOK, TokTypeOK, RouteTypeOK, GasInvKeeps
      DEF ScreensInv, ScreensTypeOK, SwapInv
<1> QED  BY <1>1, ScreensInvInit, ScreensInvNext, PTL DEF Spec
=============================================================================
