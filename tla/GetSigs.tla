------------------------------ MODULE GetSigs -------------------------------
(***************************************************************************)
(* Signer.getSigs (src/signer/signer.go): one signature per input of the   *)
(* request, in input order.  Each input's existing script is classified;   *)
(* multisig and P2SH inputs get a legacy signature hash, P2WSH inputs a    *)
(* witness (BIP143) hash over the amount item.Amts[i], and any other class *)
(* aborts the whole request.  Scripts, keys and hashes are abstracted to   *)
(* the class of each input and the amount its hash commits to.            *)
(***************************************************************************)
EXTENDS Naturals, Sequences, SequencesExt

CONSTANTS Amounts   \* satoshi amounts of the model

\* txscript.GetScriptClass results that matter to getSigs.
MultiSig == "MultiSigTy"
P2SH     == "ScriptHashTy"
P2WSH    == "WitnessV0ScriptHashTy"
Other    == "NonStandardTy"
Classes  == {MultiSig, P2SH, P2WSH, Other}

Legacy == {MultiSig, P2SH}

\* RawTxInSignature and RawTxInWitnessSignature: what the signature of input
\* i commits to.  A legacy hash does not cover the spent amount.
LegacySig(i)       == [input |-> i, hash |-> "legacy", amt |-> 0]
WitnessSig(i, amt) == [input |-> i, hash |-> "witness", amt |-> amt]

\* Mutant of Loop: an unsupported input is skipped instead of aborting.
RECURSIVE LoopSkip(_, _, _, _)
LoopSkip(cls, amts, i, sigs) ==
    IF i > Len(cls) THEN [outcome |-> "ok", sigs |-> sigs]
    ELSE CASE cls[i] \in Legacy -> LoopSkip(cls, amts, i + 1, Append(sigs, LegacySig(i)))
           [] cls[i] = P2WSH /\ i > Len(amts) -> [outcome |-> "panic", sigs |-> sigs]
           [] cls[i] = P2WSH -> LoopSkip(cls, amts, i + 1, Append(sigs, WitnessSig(i, amts[i])))
           [] OTHER -> LoopSkip(cls, amts, i + 1, sigs)

\* The range loop over pkScripts from input i on, with the signatures so
\* far.  item.Amts[i] past the end of Amts is a run-time panic (index out of
\* range) that ends the process; an unsupported class returns nil and an
\* error, dropping the signatures already made.
RECURSIVE Loop(_, _, _, _)
Loop(cls, amts, i, sigs) ==
    IF i > Len(cls) THEN [outcome |-> "ok", sigs |-> sigs]
    ELSE CASE cls[i] \in Legacy -> Loop(cls, amts, i + 1, Append(sigs, LegacySig(i)))
           [] cls[i] = P2WSH /\ i > Len(amts) -> [outcome |-> "panic", sigs |-> sigs]
           [] cls[i] = P2WSH -> Loop(cls, amts, i + 1, Append(sigs, WitnessSig(i, amts[i])))
           [] OTHER -> [outcome |-> "error", sigs |-> <<>>]

getSigs(cls, amts) == Loop(cls, amts, 1, <<>>)

-----------------------------------------------------------------------------
(* What spec.md §4.2 asks of signing, as a reference definition            *)

\* The number of witness inputs among inputs 1..i.
WitnessRank(cls, i) == Len(SelectSeq(SubSeq(cls, 1, i), LAMBDA c : c = P2WSH))

\* The amount list aligned with the inputs ("positional") or with the
\* witness inputs only ("witness", the alignment spec.md §3 states).
AmountOf(cls, amts, i, align) ==
    IF align = "positional" THEN amts[i] ELSE amts[WitnessRank(cls, i)]

\* A well-formed request for an alignment: one amount per input, or one
\* per witness input.
WellFormed(cls, amts, align) ==
    Len(amts) = IF align = "positional" THEN Len(cls) ELSE WitnessRank(cls, Len(cls))

\* All or nothing: an error if any input is unsupported, otherwise every
\* input signed in order with the hash its class needs over its own amount.
Reference(cls, amts, align) ==
    IF \E i \in 1..Len(cls) : cls[i] \notin Legacy \cup {P2WSH}
    THEN [outcome |-> "error", sigs |-> <<>>]
    ELSE [outcome |-> "ok",
          sigs |-> [i \in 1..Len(cls) |->
                      IF cls[i] = P2WSH THEN WitnessSig(i, AmountOf(cls, amts, i, align))
                                        ELSE LegacySig(i)]]
=============================================================================
