----------------------------- MODULE PolyChain -----------------------------
(***************************************************************************)
(* The source chain as the vendor tool sees it (spec.md sections 2 and 6;  *)
(* the chain and its cross-chain-manager contract are not in this          *)
(* repository).  Blocks carry the contract's notifications for this        *)
(* custodian's binding key: "makeBtcTx" (utils.TO_SIGN_TX_KEY), a request  *)
(* to sign a transaction, and "btcTxToRelay" (utils.SIGNED_TX_KEY), the    *)
(* transaction has collected its quorum.  Transactions are named by their  *)
(* canonical hash.  BtcMultiSign is the contract call that collects this   *)
(* custodian's signatures.                                                 *)
(***************************************************************************)
EXTENDS Naturals, Sequences

CONSTANTS
    Txs,          \* the transactions the bridge asks custodians to sign
    MaxHeight,    \* bound on the number of blocks
    RejectResign, \* whether BtcMultiSign rejects a signature it already holds
    Malformed     \* whether the chain may emit one malformed notification

ASSUME MaxHeight \in Nat /\ RejectResign \in BOOLEAN /\ Malformed \in BOOLEAN

VARIABLES
    blocks,    \* blocks[h]: the notifications of block h, in order
    pending,   \* notifications emitted but not yet in a block
    requested, \* transactions for which a "makeBtcTx" was emitted
    signedBy,  \* transactions holding this custodian's signatures
    relayed    \* transactions for which a "btcTxToRelay" was emitted

chainVars == <<blocks, pending, requested, signedBy, relayed>>

\* "bad" is a notification for this binding key whose states are not laid
\* out as checkEvents expects (a non-string field, an amount list that is
\* not an array).
Event == [kind : {"make", "relay", "bad"}, tx : Txs]

ChainTypeOK ==
    /\ blocks \in Seq(Seq(Event)) /\ Len(blocks) <= MaxHeight
    /\ pending \in Seq(Event)
    /\ requested \subseteq Txs /\ signedBy \subseteq Txs /\ relayed \subseteq Txs

ChainInit ==
    /\ blocks = <<>>
    /\ pending = <<>>
    /\ requested = {}
    /\ signedBy = {}
    /\ relayed = {}

\* A redemption on the bridge asks the custodians to sign tx.
RequestTx(tx) ==
    /\ tx \notin requested
    /\ requested' = requested \cup {tx}
    /\ pending' = Append(pending, [kind |-> "make", tx |-> tx])
    /\ UNCHANGED <<blocks, signedBy, relayed>>

\* The other custodians complete the quorum of a requested tx.
OthersComplete(tx) ==
    /\ tx \in requested \ relayed
    /\ relayed' = relayed \cup {tx}
    /\ pending' = Append(pending, [kind |-> "relay", tx |-> tx])
    /\ UNCHANGED <<blocks, requested, signedBy>>

\* The chain seals the emitted notifications into the next block.
ProduceBlock ==
    /\ Len(blocks) < MaxHeight
    /\ blocks' = Append(blocks, pending)
    /\ pending' = <<>>
    /\ UNCHANGED <<requested, signedBy, relayed>>

\* The notifications emitted so far, sealed or not.
Emitted == UNION {{b[i] : i \in 1..Len(b)} : b \in {blocks[k] : k \in 1..Len(blocks)} \cup {pending}}

\* A malformed notification is emitted, at most once; checkEvents fails on
\* it before it reads a transaction, so which one it names is immaterial.
EmitMalformed ==
    /\ Malformed
    /\ \A e \in Emitted : e.kind # "bad"
    /\ pending' = Append(pending, [kind |-> "bad", tx |-> CHOOSE t \in Txs : TRUE])
    /\ UNCHANGED <<blocks, requested, signedBy, relayed>>

ChainNext ==
    \/ \E tx \in Txs : RequestTx(tx) \/ OthersComplete(tx)
    \/ EmitMalformed
    \/ ProduceBlock

\* BtcMultiSign(tx) succeeds: the signatures are collected, and they may be
\* the ones that complete the quorum.
MultiSignAccepted(tx) ==
    /\ tx \notin signedBy \/ ~RejectResign
    /\ signedBy' = signedBy \cup {tx}
    /\ \/ UNCHANGED <<relayed, pending>>
       \/ /\ tx \notin relayed
          /\ relayed' = relayed \cup {tx}
          /\ pending' = Append(pending, [kind |-> "relay", tx |-> tx])
    /\ UNCHANGED <<blocks, requested>>

\* BtcMultiSign(tx) fails with an error other than client.PostErr.
MultiSignRejected(tx) ==
    /\ RejectResign /\ tx \in signedBy
    /\ UNCHANGED chainVars

\* The notifications of the blocks at heights 1..hh.
EventsUpTo(hh) ==
    UNION {{blocks[b][i] : i \in 1..Len(blocks[b])} : b \in 1..hh \cap 1..Len(blocks)}

\* The transactions whose "makeBtcTx" is in a block at height at most hh.
RequestedUpTo(hh) == {e.tx : e \in {x \in EventsUpTo(hh) : x.kind = "make"}}
=============================================================================
