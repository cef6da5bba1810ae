--------------------------- MODULE SigningService ---------------------------
(***************************************************************************)
(* What the vendor tool promises the bridge (spec.md sections 1, 4 and 7), *)
(* without the polling, the queue, the checkpoint or the cache: a          *)
(* custodian's signing service for one binding key.                        *)
(*                                                                         *)
(* The chain publishes requests.  The service signs each signable request  *)
(* on chain; it finishes with a request once its signatures are on chain   *)
(* or the request cannot be signed.  It keeps a ledger of what it signed   *)
(* and marks an entry Done when the transaction reached its quorum.        *)
(* Nothing is taken back: no signature, ledger entry or Done mark is ever  *)
(* lost, whatever crashes the implementation goes through.                 *)
(***************************************************************************)
EXTENDS FiniteSets

CONSTANTS
    Txs,     \* the transactions the bridge may ask to sign
    BadTxs   \* those that cannot be signed (an unsupported input)

VARIABLES
    requested,  \* published in a block
    signed,     \* this custodian's signatures are on chain
    relayed,    \* the transaction has its quorum
    ledger,     \* the transactions with a ledger entry
    done,       \* the entries marked Done
    finished    \* the requests the service is finished with

avars == <<requested, signed, relayed, ledger, done, finished>>

AbsInit ==
    /\ requested = {} /\ signed = {} /\ relayed = {}
    /\ ledger = {} /\ done = {} /\ finished = {}

\* A block publishes some requests.
Publish ==
    /\ \E new \in SUBSET Txs : requested' = requested \cup new
    /\ UNCHANGED <<signed, relayed, ledger, done, finished>>

\* The other custodians complete the quorum.
Relay(t) ==
    /\ relayed' = relayed \cup {t}
    /\ UNCHANGED <<requested, signed, ledger, done, finished>>

\* The service's signatures reach the chain; they may complete the quorum,
\* and a synchronous signer may finish with the request in the same step.
Sign(t) ==
    /\ t \in requested \ signed
    /\ t \notin BadTxs
    /\ signed' = signed \cup {t}
    /\ relayed' \in {relayed, relayed \cup {t}}
    /\ finished' \in {finished, finished \cup {t}}
    /\ UNCHANGED <<requested, ledger, done>>

\* The service finishes with a request whose signatures are on chain, or
\* that cannot be signed.
Finish(t) ==
    /\ t \in requested \ finished
    /\ t \in signed \cup BadTxs
    /\ finished' = finished \cup {t}
    /\ relayed' \in {relayed, relayed \cup {t}}
    /\ UNCHANGED <<requested, signed, ledger, done>>

\* A signed request gets its ledger entry, and the service is finished.
Record(t) ==
    /\ t \in signed \ ledger
    /\ ledger' = ledger \cup {t}
    /\ finished' = finished \cup {t}
    /\ UNCHANGED <<requested, signed, relayed, done>>

\* The entry of a transaction that has its quorum is marked Done.
MarkDone(t) ==
    /\ t \in (ledger \cap relayed) \ done
    /\ done' = done \cup {t}
    /\ UNCHANGED <<requested, signed, relayed, ledger, finished>>

AbsNext ==
    \/ Publish
    \/ \E t \in Txs : Relay(t) \/ Sign(t) \/ Finish(t) \/ Record(t) \/ MarkDone(t)

\* Safety alone: what any run of the service, crashed or not, must respect.
SafetySpec == AbsInit /\ [][AbsNext]_avars

\* Every published request is eventually signed, if it can be, and finished.
AbsSpec ==
    /\ SafetySpec
    /\ \A t \in Txs : WF_avars(Sign(t)) /\ WF_avars(Finish(t))
=============================================================================
