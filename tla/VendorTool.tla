----------------------------- MODULE VendorTool -----------------------------
(***************************************************************************)
(* The vendor tool as cmd/run.go starts it: the Observer and the Signer    *)
(* sharing one VendorDB, against the source chain.  Mode "all" runs both   *)
(* in one process joined by txchan; mode "split" runs an "onlyob" process  *)
(* that calls the "onlysig" process's REST SignTx for every request.      *)
(*                                                                         *)
(* A crash kills the process that holds the Observer (and, in mode "all", *)
(* the Signer) and restarts it: every in-memory variable is lost, the      *)
(* leveldb store and the last_height file survive.  The onlysig process    *)
(* keeps no state between requests; its crash inside a SignTx call is the  *)
(* SignResponseLost step of the Observer.                                  *)
(***************************************************************************)
EXTENDS Naturals, Sequences, FiniteSets

CONSTANTS
    Txs, MaxHeight, RejectResign, Malformed, CACHE_SIZE, Faults, BadTxs, NoTx,
    Mode, QueueCap, WaitingCircle, StartHeight, HeightBits, LaggingRpc, ObFaults,
    MaxCrashes  \* bound on the number of process crashes

VARIABLES
    blocks, pending, requested, signedBy, relayed,
    store, totalDisk, cache, totalCache, batch,
    txchan, sgPc, sgTx, handled,
    cursor, top, lastRecorded, obPc, newTop, h, ev, toSign, doneSeen,
    crashes  \* crashes so far

Chain == INSTANCE PolyChain
DB    == INSTANCE VendorDB WITH Keys <- Txs
S     == INSTANCE Signer
Ob    == INSTANCE Observer

chainVars == <<blocks, pending, requested, signedBy, relayed>>
dbVars    == <<store, totalDisk, cache, totalCache, batch>>
obVars    == <<cursor, top, lastRecorded, obPc, newTop, h, ev, toSign>>

vars == <<chainVars, dbVars, txchan, sgPc, sgTx, handled,
          obVars, doneSeen, crashes>>

TypeOK ==
    /\ Chain!ChainTypeOK
    /\ DB!TypeOK
    /\ S!SignerTypeOK /\ Len(txchan) <= QueueCap
    /\ Ob!ObserverTypeOK
    /\ crashes \in 0..MaxCrashes

\* Listen() after NewVendorDB, NewObserver and NewSigner.
Init ==
    /\ Chain!ChainInit
    /\ DB!Init
    /\ txchan = <<>> /\ sgPc = "idle" /\ sgTx = NoTx /\ handled = {}
    /\ cursor = 0
    /\ top = Ob!StartTop /\ lastRecorded = Ob!StartTop
    /\ obPc = "idle" /\ newTop = 0 /\ h = 0 /\ ev = 0 /\ toSign = 0
    /\ doneSeen = {}
    /\ crashes = 0

\* What getLastHeight reads after a crash: the file as it was, or, when
\* the crash hit setLastHeight's WriteFile after it truncated the file, an
\* empty file, which it reads as 0.
Recovered ==
    IF obPc = "persist" /\ "TornWrite" \in ObFaults THEN {cursor, 0} ELSE {cursor}

\* The process dies and is started again: the ledger is reopened and
\* Listen() starts from getLastHeight (or PolyStartHeight).
Crash ==
    /\ crashes < MaxCrashes
    /\ crashes' = crashes + 1
    /\ DB!NewVendorDB
    /\ txchan' = <<>> /\ sgPc' = "idle" /\ sgTx' = NoTx
    /\ \E c \in Recovered :
          /\ cursor' = c
          /\ top' = Ob!RestartTop(c) /\ lastRecorded' = Ob!RestartTop(c)
    /\ obPc' = "idle" /\ newTop' = 0 /\ h' = 0 /\ ev' = 0 /\ toSign' = 0
    /\ UNCHANGED <<chainVars, handled, doneSeen>>

\* checkEvents meets a malformed notification: a type assertion such as
\* states[1].(string) or states[3].([]interface{}) panics, nothing recovers
\* it, and the process dies and is restarted like any crash.  The restart
\* resumes at or below that block, so it meets the notification again.
Panic ==
    /\ Ob!AtNotification
    /\ Ob!Current.kind = "bad"
    /\ Crash

Environment ==
    /\ Chain!ChainNext
    /\ UNCHANGED <<dbVars, txchan, sgPc, sgTx, handled, obVars, doneSeen, crashes>>

Signing ==
    /\ Mode = "all"
    /\ S!SignerNext
    /\ UNCHANGED <<obVars, doneSeen, crashes>>

Observing ==
    /\ Ob!ObserverNext
    /\ UNCHANGED crashes

Next == Environment \/ Signing \/ Observing \/ Crash \/ Panic

\* The Observer's ticker loop and the Signer's goroutine never stop for
\* good; the chain and crashes are not obliged to happen.
\* SignResponseLost is a fault and carries no fairness.
ObserverProgress ==
    /\ Ob!Tick \/ Ob!CheckEvent \/ Ob!NextHeight \/ Ob!EndTick \/ Ob!Persist
    /\ UNCHANGED crashes

Fairness == WF_vars(Signing) /\ WF_vars(ObserverProgress)

Spec == Init /\ [][Next]_vars /\ Fairness

-----------------------------------------------------------------------------
(* Properties                                                              *)

\* A request whose block is at or below the persisted last_height is never
\* scanned again after a restart, so it must already be finished by the
\* signer, or still be in txchan or held by the Signing loop.
RequestNotLost ==
    \A tx \in Chain!RequestedUpTo(cursor) :
        \/ tx \in handled
        \/ \E i \in 1..Len(txchan) : txchan[i] = tx
        \/ sgTx = tx

\* Every transaction this custodian has signed on chain has its SavedItem in
\* the ledger, unless the Signing loop is about to write it.
SignedIsRecorded ==
    \A tx \in signedBy : tx \in DOMAIN store \/ (sgPc = "record" /\ sgTx = tx)

\* Once the Observer has handled the "btcTxToRelay" of a transaction, its
\* ledger record, if there is one, is Done.
DoneNotLost == \A tx \in doneSeen \cap DOMAIN store : store[tx].done

\* The persisted last_height never moves back: a tick whose reported height
\* is at or below the one reached is a no-op (spec.md 4.1), so the Observer
\* never rescans blocks it has already checkpointed.
CursorMonotone == [][cursor' >= cursor]_vars

-----------------------------------------------------------------------------
(* Refinement: the tool implements the signing service of SigningService.  *)
(* A request is published when its block is sealed; the ledger is the      *)
(* leveldb store (the cache is not durable), Done is the stored flag, and  *)
(* the service is finished with a request when the signer is.             *)

Service == INSTANCE SigningService WITH
    requested <- Chain!RequestedUpTo(Len(blocks)),
    signed    <- signedBy,
    ledger    <- DOMAIN store,
    done      <- {tx \in DOMAIN store : store[tx].done},
    finished  <- handled

\* Across replays after a crash, torn or failed checkpoints, rejected
\* resubmissions and reopened ledgers, every step of the tool is a step of
\* the service: the ledger holds only transactions signed on chain, a Done
\* mark only follows a quorum, the signer finishes a request only once it is
\* signed or unsignable, and no signature, ledger entry or Done mark is lost.
ImplementsServiceSafety == Service!SafetySpec

\* In addition, under the fairness of the Signing goroutine and the ticker,
\* every request published in a block is eventually signed, if getSigs can
\* sign it, and finished: the polling loop, the hand-off, the retries and
\* the checkpoint never leave a request behind.
ImplementsService == Service!AbsSpec

=============================================================================
