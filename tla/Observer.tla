------------------------------ MODULE Observer ------------------------------
(***************************************************************************)
(* The Observer of src/observer/alliaob.go: Listen() polls the chain on a  *)
(* ticker, walks the new blocks one height at a time, hands each signing   *)
(* request to the Signer (txchan in mode "all", a blocking SendToSign RPC  *)
(* retried forever in mode "split"), marks relayed transactions done in    *)
(* the ledger, and persists the height it reached ("last_height") when    *)
(* the tick captured a request or WaitingCircle heights have passed.       *)
(*                                                                         *)
(* Heights are uint32 in the code; here they are taken modulo 2^HeightBits *)
(* where the code subtracts them, HeightBits being large enough to hold    *)
(* every height of the model.  A failed GetCurrentBlockHeight or           *)
(* GetSmartContractEventByBlock is retried without changing any state: it  *)
(* is stuttering.  Notifications for other binding keys are skipped and    *)
(* are left out of the chain.                                              *)
(***************************************************************************)
EXTENDS Naturals, Sequences, FiniteSets

CONSTANTS
    Txs, MaxHeight, RejectResign, Malformed,   \* of PolyChain
    CACHE_SIZE, Faults,             \* of VendorDB
    BadTxs, NoTx,                   \* of Signer
    Mode,           \* "all": one process and txchan; "split": onlyob + onlysig
    QueueCap,       \* capacity of txchan (100 in cmd/run.go)
    WaitingCircle,  \* config CircleToSaveHeight
    StartHeight,    \* config PolyStartHeight
    HeightBits,     \* width of the uint32 height arithmetic in the model
    LaggingRpc,     \* whether GetCurrentBlockHeight may report an older height
    ObFaults        \* failures of the last_height file the model may produce

\* "WriteErr":  ioutil.WriteFile of last_height fails (setLastHeight, 231-234)
\* "TornWrite": a crash between WriteFile's truncation and its write leaves
\*              an empty file, which getLastHeight reads as 0 (208-228)

ASSUME
    /\ Mode \in {"all", "split"}
    /\ QueueCap \in Nat \ {0}
    /\ WaitingCircle \in Nat /\ StartHeight \in Nat
    /\ LaggingRpc \in BOOLEAN
    /\ ObFaults \subseteq {"WriteErr", "TornWrite"}
    /\ MaxHeight < 2^HeightBits /\ StartHeight < 2^HeightBits

VARIABLES
    blocks, pending, requested, signedBy, relayed,  \* PolyChain
    store, totalDisk, cache, totalCache, batch,     \* VendorDB
    txchan, sgPc, sgTx, handled,                    \* Signer
    cursor,        \* the file <dbPath>/last_height
    top,           \* Listen's top: the height scanned up to
    lastRecorded,  \* Listen's lastRecorded
    obPc,          \* "idle" between ticks, "scan" inside one, "persist" in setLastHeight
    newTop,        \* the height GetCurrentBlockHeight returned this tick
    h,             \* the height being scanned
    ev,            \* the notification of block h being checked
    toSign,        \* requests captured this tick
    doneSeen       \* history: transactions whose "btcTxToRelay" was handled

Chain == INSTANCE PolyChain
DB    == INSTANCE VendorDB WITH Keys <- Txs
S     == INSTANCE Signer

chainVars == <<blocks, pending, requested, signedBy, relayed>>
dbVars    == <<store, totalDisk, cache, totalCache, batch>>
obVars == <<cursor, top, lastRecorded, obPc, newTop, h, ev, toSign>>

\* What the Observer's bookkeeping steps leave alone.
restVars == <<chainVars, dbVars, txchan, sgPc, sgTx, handled, doneSeen>>

Heights == 0..(2^HeightBits - 1)

\* uint32 subtraction a - b, wrapping.
U32Sub(a, b) == (a - b) % (2^HeightBits)

ObserverTypeOK ==
    /\ {cursor, top, lastRecorded, newTop} \subseteq Heights
    /\ obPc \in {"idle", "scan", "persist"}
    /\ h \in Nat /\ ev \in Nat /\ toSign \in Nat
    /\ doneSeen \subseteq Txs

\* Listen's top after getLastHeight read c, overridden by a nonzero
\* PolyStartHeight (80-83).
RestartTop(c) == IF StartHeight # 0 THEN StartHeight ELSE c

StartTop == RestartTop(cursor)

\* What GetCurrentBlockHeight may return.
ReportedHeights == IF LaggingRpc THEN 0..Len(blocks) ELSE {Len(blocks)}

\* Mutant of Tick: the scan starts one height too far.
TickSkipFirst ==
    /\ obPc = "idle"
    /\ \E nt \in ReportedHeights :
          /\ U32Sub(nt, top) # 0
          /\ newTop' = nt
    /\ obPc' = "scan"
    /\ h' = top + 2
    /\ ev' = 1
    /\ toSign' = 0
    /\ UNCHANGED <<cursor, top, lastRecorded, restVars>>

\* A tick fires and the chain reports height nt.  "newTop-top <= 0" on
\* uint32 holds only when they are equal; otherwise the scan starts at top+1.
Tick ==
    /\ obPc = "idle"
    /\ \E nt \in ReportedHeights :
          /\ U32Sub(nt, top) # 0
          /\ newTop' = nt
    /\ obPc' = "scan"
    /\ h' = top + 1
    /\ ev' = 1
    /\ toSign' = 0
    /\ UNCHANGED <<cursor, top, lastRecorded, restVars>>

\* SignItemReq arrives at SignTx, the onlysig process's REST handler: the
\* hex and the ToSignItem framing decode (the framing round-trips, see
\* MCAlgorithms), and Sign succeeds.  Its error answers (INVALID_PARAMS,
\* ILLEGAL_DATAFORMAT, INTERNAL_ERROR) change no state and make
\* SendToSign fail, so they have no step.
SignTx(tx) == S!Sign(tx)

\* Mutant of HandOff: txchan grows without bound.
HandOffUnbounded(tx) ==
    IF Mode = "all"
    THEN /\ txchan' = Append(txchan, tx)
         /\ UNCHANGED <<handled, chainVars>>
    ELSE /\ SignTx(tx)
         /\ UNCHANGED txchan

\* The hand-off of a captured request (checkEvents, 164-173).
HandOff(tx) ==
    IF Mode = "all"
    THEN /\ Len(txchan) < QueueCap
         /\ txchan' = Append(txchan, tx)
         /\ UNCHANGED <<handled, chainVars>>
    ELSE /\ SignTx(tx)
         /\ UNCHANGED txchan

\* The notification checkEvents is at.
Current == blocks[h][ev]

AtNotification ==
    /\ obPc = "scan"
    /\ h <= newTop
    /\ ev <= Len(blocks[h])

\* checkEvents for notification ev of block h.  A "makeBtcTx" is handed off
\* and counted.  A "btcTxToRelay" marks the canonical key done; a
\* SetTxDone error is only logged.  A malformed notification panics in an
\* unchecked type assertion: that is VendorTool's Panic, not a step here.
CheckEvent ==
    /\ AtNotification
    /\ Current.kind # "bad"
    /\ IF Current.kind = "make"
       THEN /\ HandOff(Current.tx)
            /\ toSign' = toSign + 1
            /\ UNCHANGED <<dbVars, doneSeen>>
       ELSE /\ DB!SetTxDone(Current.tx)
            /\ doneSeen' = doneSeen \cup {Current.tx}
            /\ UNCHANGED <<toSign, txchan, handled, chainVars>>
    /\ ev' = ev + 1
    /\ UNCHANGED <<cursor, top, lastRecorded, obPc, newTop, h, sgPc, sgTx>>

\* Mode "split": the signer process completed Sign but SendToSign saw an
\* error (the HTTP response was lost or timed out after 300 s), so it waits
\* and posts the same item again (goto RETRY).
SignResponseLost ==
    /\ Mode = "split"
    /\ AtNotification
    /\ Current.kind = "make"
    /\ SignTx(Current.tx)
    /\ UNCHANGED <<obVars, doneSeen>>

\* All notifications of block h checked: "h++".
NextHeight ==
    /\ obPc = "scan"
    /\ h <= newTop
    /\ ev > Len(blocks[h])
    /\ h' = h + 1
    /\ ev' = 1
    /\ UNCHANGED <<cursor, top, lastRecorded, obPc, newTop, toSign, restVars>>

\* The end of the tick: "top = newTop", and whether to checkpoint (121-125).
\* Without a checkpoint the tick is complete.
EndTick ==
    /\ obPc = "scan"
    /\ h > newTop
    /\ top' = newTop
    /\ obPc' = IF toSign > 0 \/ U32Sub(newTop, lastRecorded) >= WaitingCircle
               THEN "persist" ELSE "idle"
    /\ h' = 0 /\ ev' = 0 /\ toSign' = 0   \* the tick's locals go out of scope
    /\ UNCHANGED <<cursor, lastRecorded, newTop, restVars>>

\* setLastHeight(top), whose error is only logged, then "lastRecorded = top"
\* whether or not the write succeeded (126-129, 230-236).
Persist ==
    /\ obPc = "persist"
    /\ \/ cursor' = top
       \/ /\ "WriteErr" \in ObFaults
          /\ UNCHANGED cursor
    /\ lastRecorded' = top
    /\ obPc' = "idle"
    /\ UNCHANGED <<top, newTop, h, ev, toSign, restVars>>

ObserverNext ==
    Tick \/ CheckEvent \/ SignResponseLost \/ NextHeight \/ EndTick \/ Persist
=============================================================================
