---------------------------- MODULE StakingPool ----------------------------
(***************************************************************************)
(* The WALLET token and the contracts that hold it: WALLETSupplyController *)
(* mints vested tokens and rewards, StakingPool (xWALLET) gives shares for *)
(* them, and stkWALLET wraps the shares.                                   *)
(*                                                                         *)
(* A transaction is one step.  A share is worth a fraction of what the     *)
(* pool holds, rounded down, so an operation that rounds the other way, or *)
(* counts a mint too late, takes from the other stakers.  Allowances and   *)
(* permits are left out: a user who pays has approved it.                  *)
(***************************************************************************)
EXTENDS Integers, FiniteSets, FiniteSetsExt, Functions

CONSTANTS
    Users,
    Schedules,   \* the pairs of end and rate that a vesting is kept under
    Penalties,   \* parts in Whole of a reward that are burnt if it is not staked
    Rages,       \* parts in Whole that an early leaver receives
    Whole,       \* 10000 or 1000 in the code
    Delays,      \* the times to unbond that governance may set
    MaxSupply,   \* MAX_SUPPLY, which is also the bound on amounts
    Amounts,     \* bound: what a call is for
    Grants,      \* bound: what a user has in the beginning
    Roots,       \* bound: the roots of rewards
    MaxTime,     \* bound: seconds in a behaviour
    MaxCalls,    \* bound: transactions in a behaviour
    Unset

VARIABLES
    now,
    wallet,       \* WALLET: balances, of users, the pool and the zero address
    xBalances,    \* StakingPool: balances, of users and the stkWALLET contract
    totalSupply,  \* StakingPool: totalSupply
    commitments,  \* those that pay out more than nothing
    lockedShares,
    terms,        \* timeToUnbond, rageReceivedPromilles and the vesting parameters
    lastMint,     \* WALLETSupplyController: vestingLastMint of the pool
    root,         \* the rewards that the Merkle root promises, or Unset
    penalty, claimed,
    stkShares,    \* stkWALLET: shares
    calls         \* made so far

pool == "pool"
stk == "stkWALLET"
nobody == "address(0)"

stakingVars == <<now, wallet, xBalances, totalSupply, commitments, lockedShares, terms, lastMint,
                 root, penalty, claimed, stkShares, calls>>
tokenVars == <<xBalances, totalSupply, stkShares>>
rewardVars == <<root, penalty, claimed>>

ASSUME StakingAssumption ==
    /\ IsFiniteSet(Users) /\ pool \notin Users /\ stk \notin Users /\ nobody \notin Users
    /\ Schedules \subseteq [end: Nat, rate: Nat]
    /\ Whole \in Nat \ {0} /\ Rages \subseteq 0..Whole
    /\ Penalties \subseteq 0..Whole /\ Penalties # {}
    /\ Delays \subseteq Nat /\ MaxSupply \in Nat
    /\ Amounts \subseteq Nat \ {0} /\ Grants \subseteq Nat
    /\ Roots \subseteq [Users -> Nat]
    /\ MaxTime \in Nat \ {0} /\ MaxCalls \in Nat

Supplies == 0..MaxSupply
Commitment == [owner: Users, shares: Amounts, unlocksAt: Nat, maxTokens: Supplies]

StakingTypeOK ==
    /\ now \in 1..MaxTime
    /\ wallet \in [Users \cup {pool, nobody} -> Supplies]
    /\ xBalances \in [Users \cup {stk} -> Supplies]
    /\ totalSupply \in Supplies
    /\ commitments \subseteq Commitment
    /\ lockedShares \in [Users -> Supplies]
    /\ terms \in [unbond: Delays, rage: Rages, vesting: Schedules]
    /\ lastMint \in [Schedules -> 0..MaxTime]
    /\ root \in Roots \cup {Unset}
    /\ penalty \in Penalties
    /\ claimed \in [Users -> Supplies]
    /\ stkShares \in [Users -> Supplies]
    /\ calls \in 0..MaxCalls

-----------------------------------------------------------------------------
(* WALLET and the vesting of WALLETSupplyController *)

SumOf(f) == FoldFunction(+, 0, f)

\* innerMint refuses what reaches MAX_SUPPLY.
Mintable(amount) == SumOf(wallet) + amount < MaxSupply

\* mintableVesting, or Unset where it reverts.
MintableVesting(s) ==
    LET last == lastMint[s] IN
    CASE last = 0                         -> 0
      [] last # 0 /\ now > s.end          -> IF s.end > last THEN (s.end - last) * s.rate ELSE Unset
      [] last # 0 /\ now <= s.end         -> IF last > now THEN 0 ELSE (now - last) * s.rate

\* mintVesting for the pool, which a caller of the pool may skip: m is minted
\* before the pool looks at its balance.
MintVesting(m) ==
    /\ MintableVesting(terms.vesting) # Unset
    /\ m = MintableVesting(terms.vesting)
    /\ Mintable(m)
    /\ lastMint' = IF m > 0 THEN [lastMint EXCEPT ![terms.vesting] = now] ELSE lastMint

MintOrSkip(m) == MintVesting(m) \/ (m = 0 /\ UNCHANGED lastMint)

\* Anyone may ask for it outside the pool, for any vesting of the pool.
MintForPool(s) ==
    /\ MintableVesting(s) \notin {Unset, 0}
    /\ Mintable(MintableVesting(s))
    /\ wallet' = [wallet EXCEPT ![pool] = @ + MintableVesting(s)]
    /\ lastMint' = [lastMint EXCEPT ![s] = now]
    /\ UNCHANGED <<now, commitments, lockedShares, terms, tokenVars, rewardVars>>

Pay(from, to, amount) ==
    /\ wallet[from] >= amount
    /\ wallet' = [wallet EXCEPT ![from] = @ - amount, ![to] = @ + amount]
    /\ UNCHANGED <<now, commitments, lockedShares, terms, lastMint, tokenVars, rewardVars>>

-----------------------------------------------------------------------------
(* StakingPool *)

Worth(shares, held) == (shares * held) \div totalSupply

\* Mistake: the shares are rounded up.
NewSharesRoundedUp(amount, held) ==
    IF totalSupply = 0 \/ held = 0 THEN amount
    ELSE (amount * totalSupply + held - 1) \div held

\* innerEnter: what the amount buys of a pool that holds so much.
NewShares(amount, held) ==
    IF totalSupply = 0 \/ held = 0 THEN amount ELSE (amount * totalSupply) \div held

MintShares(to, shares) ==
    /\ xBalances' = [xBalances EXCEPT ![to] = @ + shares]
    /\ totalSupply' = totalSupply + shares

Burn(from, shares) ==
    /\ xBalances[from] >= shares
    /\ xBalances' = [xBalances EXCEPT ![from] = @ - shares]
    /\ totalSupply' = totalSupply - shares

\* enter and enterTo.
Enter(payer, recipient, amount) ==
    \E m \in Supplies :
        /\ MintVesting(m)
        /\ wallet[payer] >= amount
        /\ MintShares(recipient, NewShares(amount, wallet[pool] + m))
        /\ wallet' = [wallet EXCEPT ![payer] = @ - amount, ![pool] = @ + m + amount]
        /\ UNCHANGED <<now, commitments, lockedShares, terms, stkShares, rewardVars>>

SameId(c, d) == c.owner = d.owner /\ c.shares = d.shares /\ c.unlocksAt = d.unlocksAt

Leave(u, shares) ==
    \E m \in Supplies :
        LET c == [owner |-> u, shares |-> shares, unlocksAt |-> now + terms.unbond,
                  maxTokens |-> Worth(shares, wallet[pool] + m)]
        IN
        /\ MintOrSkip(m)
        /\ lockedShares[u] + shares <= xBalances[u]
        /\ totalSupply > 0
        /\ ~\E d \in commitments : SameId(c, d)
        /\ commitments' = IF c.maxTokens > 0 THEN commitments \cup {c} ELSE commitments
        /\ lockedShares' = [lockedShares EXCEPT ![u] = @ + shares]
        /\ wallet' = [wallet EXCEPT ![pool] = @ + m]
        /\ UNCHANGED <<now, terms, tokenVars, rewardVars>>

\* A commitment receives what it was worth, or what it is worth now if that is less.
Received(c, held) == Min({c.maxTokens, Worth(c.shares, held)})

\* Mistake: a commitment that was withdrawn stays.
ForgetNothing(c) == commitments
Forget(c) == commitments \ {c}
\* Mistake: the tokens of the commitment are unlocked instead of its shares.
UnlockedTokens(c) == [lockedShares EXCEPT ![c.owner] = @ - c.maxTokens]
Unlocked(c) == [lockedShares EXCEPT ![c.owner] = @ - c.shares]

Withdraw(c) ==
    \E m \in Supplies :
        /\ MintOrSkip(m)
        /\ now > c.unlocksAt
        /\ lockedShares[c.owner] >= c.shares
        /\ Burn(c.owner, c.shares)
        /\ commitments' = Forget(c)
        /\ lockedShares' = Unlocked(c)
        /\ LET paid == Received(c, wallet[pool] + m) IN
           wallet' = [wallet EXCEPT ![pool] = @ + m - paid, ![c.owner] = @ + paid]
        /\ UNCHANGED <<now, terms, stkShares, rewardVars>>

RageLeave(u, shares) ==
    \E m \in Supplies :
        /\ MintOrSkip(m)
        /\ totalSupply > 0
        /\ Burn(u, shares)
        /\ LET paid == (Worth(shares, wallet[pool] + m) * terms.rage) \div Whole IN
           wallet' = [wallet EXCEPT ![pool] = @ + m - paid, ![u] = @ + paid]
        /\ UNCHANGED <<now, commitments, lockedShares, terms, stkShares, rewardVars>>

\* Shares may be moved whether they are locked or not.
TransferShares(from, to, shares) ==
    /\ xBalances[from] >= shares
    /\ xBalances' = [xBalances EXCEPT ![from] = @ - shares, ![to] = @ + shares]
    /\ UNCHANGED <<now, wallet, totalSupply, commitments, lockedShares, terms, lastMint,
                   stkShares, rewardVars>>

-----------------------------------------------------------------------------
(* stkWALLET *)

StkUnchanged == UNCHANGED <<now, wallet, totalSupply, commitments, lockedShares, terms,
                            lastMint, rewardVars>>

Wrap(u, shares) ==
    /\ xBalances[u] >= shares
    /\ xBalances' = [xBalances EXCEPT ![u] = @ - shares, ![stk] = @ + shares]
    /\ stkShares' = [stkShares EXCEPT ![u] = @ + shares]
    /\ StkUnchanged

Unwrap(u, shares) ==
    /\ stkShares[u] >= shares
    /\ stkShares' = [stkShares EXCEPT ![u] = @ - shares]
    /\ xBalances[stk] >= shares
    /\ xBalances' = [xBalances EXCEPT ![stk] = @ - shares, ![u] = @ + shares]
    /\ StkUnchanged

\* An amount of WALLET is converted to shares, rounded down.
TransferWrapped(from, to, shares) ==
    /\ stkShares[from] >= shares
    /\ stkShares' = [stkShares EXCEPT ![from] = @ - shares, ![to] = @ + shares]
    /\ UNCHANGED xBalances
    /\ StkUnchanged

\* enterTo: what the pool gave to the contract is given to the recipient.
EnterWrapped(payer, recipient, amount) ==
    \E m \in Supplies :
        LET given == NewShares(amount, wallet[pool] + m) IN
        /\ MintVesting(m)
        /\ wallet[payer] >= amount
        /\ given > 0
        /\ MintShares(stk, given)
        /\ stkShares' = [stkShares EXCEPT ![recipient] = @ + given]
        /\ wallet' = [wallet EXCEPT ![payer] = @ - amount, ![pool] = @ + m + amount]
        /\ UNCHANGED <<now, commitments, lockedShares, terms, rewardVars>>

-----------------------------------------------------------------------------
(* The rewards of WALLETSupplyController *)

ToClaim(u) == root[u] - claimed[u]
Claims(u) ==
    /\ root # Unset
    /\ ToClaim(u) >= 0
    /\ Mintable(ToClaim(u))
    /\ claimed' = [claimed EXCEPT ![u] = root[u]]
    /\ UNCHANGED <<now, commitments, lockedShares, terms, root, penalty, stkShares>>

\* toBurnBps is the penalty: some of it is burnt, the rest is received.
ClaimWithPenalty(u) ==
    /\ Claims(u)
    /\ LET burnt == (ToClaim(u) * penalty) \div Whole IN
       wallet' = [wallet EXCEPT ![u] = @ + ToClaim(u) - burnt, ![nobody] = @ + burnt]
    /\ UNCHANGED <<lastMint, xBalances, totalSupply>>

\* toBurnBps is 0, and the penalty is not: the tokens are minted to the
\* controller, which enters the pool for the recipient.
ClaimStaked(u) ==
    /\ penalty # 0
    /\ Claims(u)
    /\ \E m \in Supplies :
           /\ MintVesting(m)
           /\ Mintable(m + ToClaim(u))
           /\ MintShares(u, NewShares(ToClaim(u), wallet[pool] + m))
           /\ wallet' = [wallet EXCEPT ![pool] = @ + m + ToClaim(u)]

-----------------------------------------------------------------------------
(* Governance and time *)

GovernanceUnchanged == UNCHANGED <<now, wallet, commitments, lockedShares, claimed, tokenVars>>

SetTerms(t) == terms' = t /\ UNCHANGED <<lastMint, root, penalty>> /\ GovernanceUnchanged
SetVesting(s, start) ==
    /\ lastMint[s] = 0
    /\ lastMint' = [lastMint EXCEPT ![s] = start]
    /\ UNCHANGED <<terms, root, penalty>>
    /\ GovernanceUnchanged
UnsetVesting(s) ==
    /\ lastMint' = [lastMint EXCEPT ![s] = 0]
    /\ UNCHANGED <<terms, root, penalty>>
    /\ GovernanceUnchanged
SetRoot(r) == root' = r /\ UNCHANGED <<terms, lastMint, penalty>> /\ GovernanceUnchanged
\* The value that is checked is the one that is replaced.
SetPenalty(p) ==
    /\ penalty <= Whole /\ penalty' = p
    /\ UNCHANGED <<terms, lastMint, root>>
    /\ GovernanceUnchanged

Tick ==
    /\ now < MaxTime
    /\ now' = now + 1
    /\ UNCHANGED <<wallet, commitments, lockedShares, terms, lastMint, tokenVars, rewardVars>>
    /\ UNCHANGED calls

StakingInit ==
    /\ now = 1
    /\ \E f \in [Users -> Grants] :
           wallet = [h \in Users \cup {pool, nobody} |-> IF h \in Users THEN f[h] ELSE 0]
    /\ SumOf(wallet) < MaxSupply
    /\ xBalances = [h \in Users \cup {stk} |-> 0]
    /\ totalSupply = 0
    /\ commitments = {}
    /\ lockedShares = [u \in Users |-> 0]
    /\ terms \in [unbond: Delays, rage: Rages, vesting: Schedules]
    /\ lastMint = [s \in Schedules |-> 0]
    /\ root = Unset
    /\ penalty = Min(Penalties)
    /\ claimed = [u \in Users |-> 0]
    /\ stkShares = [u \in Users |-> 0]
    /\ calls = 0

Staking ==
    \E u, v \in Users, n \in Amounts :
        \/ Enter(u, v, n) \/ EnterWrapped(u, v, n)
        \/ Leave(u, n) \/ RageLeave(u, n)
        \/ TransferShares(u, v, n) \/ TransferShares(u, stk, n)
        \/ Wrap(u, n) \/ Unwrap(u, n) \/ TransferWrapped(u, v, n)
        \/ Pay(u, v, n) \/ Pay(u, pool, n)

Transaction ==
    \/ Staking
    \/ \E c \in commitments : Withdraw(c)
    \/ \E u \in Users : ClaimWithPenalty(u) \/ ClaimStaked(u)
    \/ \E s \in Schedules : MintForPool(s) \/ UnsetVesting(s)
    \/ \E s \in Schedules, start \in 1..MaxTime : SetVesting(s, start)
    \/ \E t \in [unbond: Delays, rage: Rages, vesting: Schedules] : SetTerms(t)
    \/ \E r \in Roots : SetRoot(r)
    \/ \E p \in Penalties : SetPenalty(p)

StakingNext ==
    \/ calls < MaxCalls /\ calls' = calls + 1 /\ Transaction
    \/ Tick

StakingSpec == StakingInit /\ [][StakingNext]_stakingVars

-----------------------------------------------------------------------------
(* Properties *)

\* "The totalWALLET == 0 check here should be redudnant": a share is never worth
\* less than one WALLET, so a pool with shares has tokens, and what every staker
\* could take at once is there.
SharesAreBacked == totalSupply <= wallet[pool]

\* No operation takes from those who stay: what a share is worth never falls as
\* long as there are shares, whoever enters, leaves or vests, and with whatever
\* rounding.
KeepsShareValue ==
    totalSupply > 0 /\ totalSupply' > 0 =>
        wallet'[pool] * totalSupply >= wallet[pool] * totalSupply'
ShareValueNeverFalls == [][KeepsShareValue]_stakingVars

\* The books agree: the supply is what the holders have, the wrapped shares are
\* held by the contract that wraps them, and a staker's locked shares are those of
\* the commitments that wait, so that a withdrawal never fails on them.
SharesOf(u) == SumFunction([c \in {d \in commitments : d.owner = u} |-> c.shares])
BooksBalance ==
    /\ SumOf(xBalances) = totalSupply
    /\ SumOf(stkShares) <= xBalances[stk]
    /\ \A u \in Users : lockedShares[u] = SharesOf(u)

PoolIsSound == SharesAreBacked /\ BooksBalance
=============================================================================
