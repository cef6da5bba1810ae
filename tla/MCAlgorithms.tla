---------------------------- MODULE MCAlgorithms ----------------------------
(***************************************************************************)
(* Bounded inputs for the pure algorithms of the tool: the ledger value    *)
(* framing of Codec, the per-input signing of GetSigs and GetUtxoKey.      *)
(*   - rec, buf: a SavedItem and its encoding, or (fuzz) any short byte    *)
(*     string as a REST SignTx request body;                               *)
(*   - cls, amts: a signing request's input script classes and amounts;    *)
(*   - script: a redeem or output script given to GetUtxoKey.              *)
(* Each initial state holds one input of one of the algorithms; the        *)
(* others keep a fixed value.  The properties are state predicates.        *)
(***************************************************************************)
EXTENDS Codec, UtxoKey, FiniteSets

CONSTANTS MaxAmts, MaxInputs, FuzzBytes, FuzzLen

VARIABLES rec, buf, cls, amts, script

vars == <<rec, buf, cls, amts, script>>

\* Three transaction encodings of different lengths, none a prefix of
\* another; two timestamps; amounts that need one, two and three bytes.
MCValidTx   == {<<1, 0>>, <<1, 7>>, <<2>>}
MCValidTime == {<<1, 0>>, <<1, 1>>}

\* The SavedItems of the model: at most MaxAmts amounts.
Records ==
    [item : [tx : ValidTx, amts : BoundedSeq(AmtValues, MaxAmts)],
     time : ValidTime, done : BOOLEAN]

\* Signing requests: up to MaxInputs inputs of any class, up to MaxInputs
\* amounts.
Requests == BoundedSeq(Classes, MaxInputs) \X BoundedSeq(Amounts, MaxInputs)

\* Request bodies of the fuzz run.
Buffers == BoundedSeq(FuzzBytes, FuzzLen)

SomeRecord == CHOOSE r \in Records : TRUE

\* Multisig redeems 1-of-1, 1-of-2 and 2-of-2 over keys 7 and 8.
Redeems ==
    {<<OP_1, OP_DATA_33, 7, OP_1, OP_CHECKMULTISIG>>,
     <<OP_1, OP_DATA_33, 7, OP_DATA_33, 8, OP_1 + 1, OP_CHECKMULTISIG>>,
     <<OP_1 + 1, OP_DATA_33, 7, OP_DATA_33, 8, OP_1 + 1, OP_CHECKMULTISIG>>}

\* Scripts locking to no redeem: empty (an unset Redeem), a key count that
\* does not match, a P2PKH output, and a P2SH output cut short.
SomeHash == Hash160(<<OP_1>>)
NotLocks ==
    {<<>>,
     <<OP_1, OP_DATA_33, 7, OP_1 + 1, OP_CHECKMULTISIG>>,
     <<118, OP_HASH160, OP_DATA_20>> \o SomeHash \o <<136, 172>>,
     <<OP_HASH160, OP_DATA_20>> \o SubSeq(SomeHash, 1, 19) \o <<OP_EQUAL>>}

Scripts == UNION {Locks(r) : r \in Redeems} \cup NotLocks

\* Every ledger record with its encoding, every signing request, or every
\* script.
InitInputs ==
    \/ /\ rec \in Records /\ buf = SerializeSaved(rec)
       /\ cls = <<>> /\ amts = <<>> /\ script = <<>>
    \/ /\ rec = SomeRecord /\ buf = SerializeSaved(rec)
       /\ \E r \in Requests : cls = r[1] /\ amts = r[2]
       /\ script = <<>>
    \/ /\ rec = SomeRecord /\ buf = SerializeSaved(rec)
       /\ cls = <<>> /\ amts = <<>> /\ script \in Scripts

\* Every short request body.
InitBuffers ==
    /\ buf \in Buffers /\ rec = SomeRecord /\ cls = <<>> /\ amts = <<>>
    /\ script = <<>>

Next == UNCHANGED vars

SpecInputs  == InitInputs /\ [][Next]_vars
SpecBuffers == InitBuffers /\ [][Next]_vars

-----------------------------------------------------------------------------
(* Codec                                                                   *)

\* A ledger value written by PutSignedTx (SavedItem.Serialize) and read back
\* by GetSignedTx or ReadFirstBatch (SavedItem.Deserialize) is the record that
\* was written: transaction, amounts in order, time and Done flag.  This
\* needs both framings, the inner ToSignItem read from a zero-padded slice,
\* and the 8-byte amounts all to agree on width and byte order.
RoundTrip ==
    /\ DeserializeSaved(buf).ok
    /\ DeserializeSaved(buf).item = rec

\* A value cut short anywhere (a torn or truncated leveldb value) is
\* rejected by SavedItem.Deserialize, never decoded into some other record.
\* bytes.Reader.Read reports no error on a short read, so only the later
\* fixed-width reads (the time length, the Done byte) can catch it.
PrefixRejected ==
    \A k \in 0..(Len(buf) - 1) : ~DeserializeSaved(SubSeq(buf, 1, k)).ok

\* ToSignItem.Deserialize, run on a request body, reserves no more memory
\* than the body has bytes (spec.md §7: malformed input is logged and
\* dropped).  The two make() calls size their slices from the length fields
\* before reading, so a body of a few bytes can ask for gigabytes.
AllocationBounded == DeserializeToSign(Whole(buf)).alloc <= Len(buf)

-----------------------------------------------------------------------------
(* getSigs                                                                 *)

\* On a request whose amounts are listed one per input, getSigs never
\* panics, returns an error exactly when some input has an unsupported
\* script class (no partial signature list), and otherwise signs every input
\* in order with a legacy hash, or a witness hash over that input's amount.
MatchesPositional ==
    WellFormed(cls, amts, "positional") =>
        getSigs(cls, amts) = Reference(cls, amts, "positional")

\* The same for a request whose amounts are listed one per witness input,
\* as spec.md §3 defines the SigningRequest.  getSigs reads item.Amts[i] by
\* input position, so a request mixing legacy and witness inputs panics or
\* signs a witness input over another input's amount.
MatchesWitnessAligned ==
    WellFormed(cls, amts, "witness") =>
        getSigs(cls, amts) = Reference(cls, amts, "witness")
-----------------------------------------------------------------------------
(* GetUtxoKey                                                              *)

\* The Observer and the Signer derive the binding key with GetUtxoKey from
\* the configured redeem.  A multisig redeem, and the P2SH and P2WSH output
\* scripts that lock to it, all give the same key, the hex HASH160 of the
\* redeem; a script that locks to no redeem gives the empty key.  This needs
\* the slice offsets 2:22 and 2:34 to match the two output layouts and the
\* P2WSH branch to complete sha256 to HASH160.
KeyIsBindingKey ==
    GetUtxoKey(script) =
        IF \E r \in Redeems : script \in Locks(r)
        THEN BindingKey(CHOOSE r \in Redeems : script \in Locks(r))
        ELSE <<>>
=============================================================================
