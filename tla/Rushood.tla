------------------------------- MODULE Rushood -------------------------------
(***************************************************************************)
(* The RUSH token (Rushood.sol: OpenZeppelin ERC20 + ERC20Burnable, fixed   *)
(* supply) and the two ways the Treasury contract moves it (Treasury.sol).  *)
(*                                                                         *)
(* A transfer that the token would revert is a guard that is false.  Only   *)
(* the allowance given to the game is kept: a transferFrom by any other     *)
(* spender is, for the balances, the transfer its owner agreed to.          *)
(***************************************************************************)
EXTENDS Integers, Functions, FiniteSets

CONSTANTS
  Players,      \* externally owned accounts that may bet
  Officers,     \* accounts that may hold the governance and guardian roles
  Relayer,      \* the account authorised to rotate the hash chain
  Treasury,     \* the Treasury contract
  Game,         \* the RushoodGame contract, wired into the Treasury
  NoOne,        \* address(0)
  MaxUint256,   \* type(uint256).max: an allowance that is never consumed
  MAX_SUPPLY,   \* Rushood.MAX_SUPPLY
  Genesis       \* balances after the genesis distribution

Account == Players \cup Officers \cup {Relayer, Treasury, Game}

(* Accounts whose owner can send a token transaction: the two contracts have *)
(* no code path that moves the game's tokens or approves a spender.          *)
Holder == Account \ {Treasury, Game}

ASSUME AccountsAssumption ==
  /\ Treasury # Game
  /\ {Treasury, Game} \cap (Players \cup Officers \cup {Relayer}) = {}
  /\ NoOne \notin Account

(* An address has 160 bits.                                                  *)
ASSUME FiniteAssumption == IsFiniteSet(Account)

ASSUME GenesisAssumption ==
  /\ MaxUint256 \in Nat
  /\ MAX_SUPPLY \in Nat
  /\ Genesis \in [Account -> Nat]

(* The split of genesis.ts consumes the supply exactly.                      *)
ASSUME GenesisSplit == SumFunction(Genesis) = MAX_SUPPLY

VARIABLES
  balance,      \* ERC20 _balances
  allowance,    \* ERC20 _allowances[player][game]
  totalSupply   \* ERC20 _totalSupply

tokenVars == <<balance, allowance, totalSupply>>

(* The supply is decremented unchecked: that it stays a natural number is a  *)
(* consequence of conservation (SupplyConserved), not of its type.           *)
TokenTypeOK ==
  /\ balance \in [Account -> Nat]
  /\ allowance \in [Players -> Nat]
  /\ totalSupply \in Int

TokenInit ==
  /\ balance = Genesis
  /\ allowance = [p \in Players |-> 0]
  /\ totalSupply = MAX_SUPPLY

------------------------------------------------------------------------------
(* Balances after `amount` moves from one account to another, which may be   *)
(* the same one.                                                             *)
Moved_ReadsBefore(bal, from, to, amount) ==
  [bal EXCEPT ![from] = bal[from] - amount, ![to] = bal[to] + amount]
Moved(bal, from, to, amount) ==
  [a \in Account |-> (bal[a] - (IF a = from THEN amount ELSE 0))
                       + (IF a = to THEN amount ELSE 0)]

(* Balances after `amount` of an account's own tokens is burned.             *)
Burned(bal, from, amount) == [bal EXCEPT ![from] = @ - amount]

(* The allowance left after spending: the maximum value is never consumed.   *)
Spent(allowed, amount) == IF allowed = MaxUint256 THEN allowed ELSE allowed - amount

------------------------------------------------------------------------------
Transfer(from, to, amount) ==
  /\ from \in Holder
  /\ amount <= balance[from]
  /\ balance' = Moved(balance, from, to, amount)
  /\ UNCHANGED <<allowance, totalSupply>>

Approve(owner, amount) ==
  /\ amount <= MaxUint256
  /\ allowance' = [allowance EXCEPT ![owner] = amount]
  /\ UNCHANGED <<balance, totalSupply>>

HolderBurn(owner, amount) ==
  /\ owner \in Holder
  /\ amount <= balance[owner]
  /\ balance' = Burned(balance, owner, amount)
  /\ totalSupply' = totalSupply - amount
  /\ UNCHANGED allowance
==============================================================================
