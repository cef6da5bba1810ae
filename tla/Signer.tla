------------------------------- MODULE Signer -------------------------------
(***************************************************************************)
(* The Signer of src/signer/signer.go.                                     *)
(*                                                                         *)
(* In mode "all" the goroutine Signing() takes ToSignItems from txchan,    *)
(* computes the signatures (getSigs), submits them with BtcMultiSign,      *)
(* retrying a client.PostErr forever, and on success writes a SavedItem    *)
(* into the ledger.  In mode "split" the REST handler calls Sign(item),    *)
(* which signs and submits the same way but writes nothing.               *)
(*                                                                         *)
(* getSigs is abstracted to its outcome: a transaction in BadTxs has an    *)
(* input whose script class is neither multisig, P2SH nor P2WSH and fails  *)
(* as a whole.  A PostErr retry changes no state: it is stuttering.        *)
(***************************************************************************)
EXTENDS Naturals, Sequences, FiniteSets

CONSTANTS
    Txs, MaxHeight, RejectResign, Malformed,  \* of PolyChain
    CACHE_SIZE, Faults,            \* of VendorDB
    BadTxs,                        \* transactions getSigs cannot sign
    NoTx                           \* no item held

ASSUME BadTxs \subseteq Txs /\ NoTx \notin Txs

VARIABLES
    blocks, pending, requested, signedBy, relayed,  \* PolyChain
    store, totalDisk, cache, totalCache, batch,     \* VendorDB
    txchan,   \* the buffered channel chan *ToSignItem
    sgPc,     \* where the Signing loop is: "idle", "submit" or "record"
    sgTx,     \* the item the Signing loop holds
    handled   \* history: transactions the signer has finished with

Chain == INSTANCE PolyChain
DB    == INSTANCE VendorDB WITH Keys <- Txs

chainVars == <<blocks, pending, requested, signedBy, relayed>>
dbVars    == <<store, totalDisk, cache, totalCache, batch>>
sgVars == <<sgPc, sgTx>>

SignerTypeOK ==
    /\ txchan \in Seq(Txs)
    /\ sgPc \in {"idle", "submit", "record"}
    /\ sgTx \in Txs \cup {NoTx}
    /\ handled \subseteq Txs

\* getSigs succeeds: every input has a supported script class.
GetSigsOk(tx) == tx \notin BadTxs

\* Mutant of Receive: the item goes straight to PutSignedTx.
ReceiveSkipSubmit ==
    /\ sgPc = "idle"
    /\ txchan # <<>>
    /\ txchan' = Tail(txchan)
    /\ sgPc' = "record"
    /\ sgTx' = Head(txchan)
    /\ UNCHANGED <<handled, chainVars, dbVars>>

\* Signing(), "case item := <-signer.txchan" and getSigs: a failure to sign
\* drops the item.
Receive ==
    /\ sgPc = "idle"
    /\ txchan # <<>>
    /\ txchan' = Tail(txchan)
    /\ IF GetSigsOk(Head(txchan))
       THEN /\ sgPc' = "submit"
            /\ sgTx' = Head(txchan)
            /\ UNCHANGED handled
       ELSE /\ sgPc' = "idle"
            /\ handled' = handled \cup {Head(txchan)}
            /\ UNCHANGED sgTx
    /\ UNCHANGED <<chainVars, dbVars>>

\* Signing(), BtcMultiSign: success goes on to record the item; any error
\* other than PostErr drops it.
Submit ==
    /\ sgPc = "submit"
    /\ \/ /\ Chain!MultiSignAccepted(sgTx)
          /\ sgPc' = "record"
          /\ UNCHANGED <<sgTx, handled>>
       \/ /\ Chain!MultiSignRejected(sgTx)
          /\ sgPc' = "idle"
          /\ sgTx' = NoTx
          /\ handled' = handled \cup {sgTx}
    /\ UNCHANGED <<txchan, dbVars>>

\* Mutant of Record: the SavedItem is never written.
RecordNoPut ==
    /\ sgPc = "record"
    /\ sgPc' = "idle"
    /\ sgTx' = NoTx
    /\ handled' = handled \cup {sgTx}
    /\ UNCHANGED <<txchan, chainVars, dbVars>>

\* Signing(), PutSignedTx of the canonical key with TimeReceived = now and
\* Done = false; an error is only logged.
Record ==
    /\ sgPc = "record"
    /\ DB!PutSignedTx(sgTx, DB!NextTime)
    /\ sgPc' = "idle"
    /\ sgTx' = NoTx
    /\ handled' = handled \cup {sgTx}
    /\ UNCHANGED <<txchan, chainVars>>

Sign(tx) ==
    /\ GetSigsOk(tx)
    /\ Chain!MultiSignAccepted(tx)
    /\ handled' = handled \cup {tx}
    /\ UNCHANGED <<txchan, sgVars, dbVars>>

SignerNext == Receive \/ Submit \/ Record
=============================================================================
