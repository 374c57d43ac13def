------------------------------ MODULE Genesis ------------------------------
(***************************************************************************)
(* From a genesis configuration to the genesis state                       *)
(* (crates/store/src/genesis): faucets are created first, wallets receive  *)
(* the assets their configuration names, and every faucet records what was *)
(* issued to wallets.                                                      *)
(*                                                                         *)
(* A configuration is [faucets, wallets]: a sequence of [symbol,           *)
(* max_supply] and a sequence of wallets, each a sequence of [symbol,      *)
(* amount].  Keys, seeds and decimals play no part; amounts and supplies   *)
(* are in the same unit, as in the code.                                   *)
(***************************************************************************)
EXTENDS Integers, Sequences, SequencesExt

CONSTANTS
    MaxAmount,      \* FungibleAsset::MAX_AMOUNT
    MaxIssuance     \* the largest u64

ASSUME GenesisAssumption == MaxAmount \in Nat /\ MaxIssuance \in Nat

Symbols(config) == {f.symbol : f \in ToSet(config.faucets)}

(* The amounts a wallet's configuration lists for a symbol, added up as     *)
(* FungibleAssetDelta does.                                                 *)
Holding(wallet, symbol) ==
    FoldLeft(LAMBDA sum, asset : IF asset.symbol = symbol THEN sum + asset.amount ELSE sum, 0, wallet)

(* Mistake: the entry of a faucet is set, not added to, by each wallet.     *)
LastIssued(wallets, symbol) ==
    FoldLeft(LAMBDA sum, w : IF Holding(w, symbol) > 0 THEN Holding(w, symbol) ELSE sum, 0, wallets)
(* faucet_issuance, over all wallets.                                       *)
Issued(wallets, symbol) ==
    FoldLeft(LAMBDA sum, w : sum + Holding(w, symbol), 0, wallets)

MaxSupply(config, symbol) ==
    (CHOOSE f \in ToSet(config.faucets) : f.symbol = symbol).max_supply

(* The errors of GenesisConfig::into_state.                                 *)
DuplicateFaucet(config) ==
    \E i, j \in DOMAIN config.faucets :
        i < j /\ config.faucets[i].symbol = config.faucets[j].symbol

(* BasicFungibleFaucet::new.                                                *)
SupplyTooLarge(config) == \E f \in ToSet(config.faucets) : f.max_supply > MaxAmount

MissingFaucet(config) ==
    \E w \in ToSet(config.wallets) : \E a \in ToSet(w) : a.symbol \notin Symbols(config)

AmountTooLarge(config) ==
    \E w \in ToSet(config.wallets) :
        \/ \E a \in ToSet(w) : a.amount > MaxAmount
        \/ \E s \in Symbols(config) : Holding(w, s) > MaxAmount

IssuanceOverflow(config) ==
    \E s \in Symbols(config) : Issued(config.wallets, s) > MaxIssuance

MaxIssuanceExceeded(config) ==
    \E s \in Symbols(config) : MaxSupply(config, s) < Issued(config.wallets, s)

Accepted(config) ==
    /\ ~SupplyTooLarge(config)
    /\ ~DuplicateFaucet(config)
    /\ ~MissingFaucet(config)
    /\ ~AmountTooLarge(config)
    /\ ~IssuanceOverflow(config)
    /\ ~MaxIssuanceExceeded(config)

(* Faucets with their issuance and wallets with their balances; every nonce *)
(* is set to one, since the accounts count as deployed.                     *)
IntoState(config) ==
    [faucets |-> [s \in Symbols(config) |->
                    [issued |-> Issued(config.wallets, s),
                     max_supply |-> MaxSupply(config, s), nonce |-> 1]],
     wallets |-> [i \in DOMAIN config.wallets |->
                    [balance |-> [s \in Symbols(config) |-> Holding(config.wallets[i], s)],
                     nonce |-> 1]]]
=============================================================================
