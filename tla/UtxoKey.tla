------------------------------ MODULE UtxoKey -------------------------------
(***************************************************************************)
(* utils.GetUtxoKey (src/utils/utils.go): the binding key the Observer     *)
(* matches notifications against and the Signer submits with, computed     *)
(* from the configured redeem script.  Scripts are byte sequences.  A      *)
(* public-key push is abbreviated to its push opcode and one byte naming   *)
(* the key.  The digests have their real widths (32 and 20 bytes) but are  *)
(* modelled as tagged, zero-padded copies of their input's length and      *)
(* leading bytes: injective on the short scripts of the model, so two keys *)
(* are equal exactly when the real digests would be.                       *)
(***************************************************************************)
EXTENDS Naturals, Sequences, GetSigs

\* The opcodes txscript.GetScriptClass reads.
OP_0             == 0
OP_DATA_20       == 20
OP_DATA_32       == 32
OP_DATA_33       == 33
OP_1             == 81
OP_16            == 96
OP_EQUAL         == 135
OP_HASH160       == 169
OP_CHECKMULTISIG == 174

\* Go's s[lo:hi].
Slice(s, lo, hi) == SubSeq(s, lo + 1, hi)

\* The first n bytes of s, zero-padded to n.
Pad(s, n) == [i \in 1..n |-> IF i <= Len(s) THEN s[i] ELSE 0]

\* sha256, ripemd160 and btcutil.Hash160 = ripemd160(sha256(.)).
Sha256(s)    == Pad(<<1, Len(s)>> \o s, 32)
Ripemd160(s) == Pad(<<2, Len(s)>> \o s, 20)
Hash160(s)   == Ripemd160(Sha256(s))

\* hex.EncodeToString: each byte becomes two digits, high nibble first; a
\* digit is written as its value.
Hex(s) == [i \in 1..2 * Len(s) |->
             IF i % 2 = 1 THEN s[(i + 1) \div 2] \div 16 ELSE s[i \div 2] % 16]

\* txscript: OP_0 and OP_1..OP_16 push small integers.
IsSmallInt(b) == b = OP_0 \/ b \in OP_1..OP_16
SmallInt(b)   == IF b = OP_0 THEN 0 ELSE b - OP_1 + 1

\* A bare multisig script: OP_m, n key pushes, OP_n, OP_CHECKMULTISIG.
IsMultiSig(s) ==
    /\ Len(s) >= 4
    /\ IsSmallInt(s[1]) /\ IsSmallInt(s[Len(s) - 1])
    /\ s[Len(s)] = OP_CHECKMULTISIG
    /\ Len(s) = 3 + 2 * SmallInt(s[Len(s) - 1])
    /\ \A j \in 1..SmallInt(s[Len(s) - 1]) : s[2 * j] = OP_DATA_33

\* OP_HASH160 <20 bytes> OP_EQUAL.
IsScriptHash(s) ==
    Len(s) = 23 /\ s[1] = OP_HASH160 /\ s[2] = OP_DATA_20 /\ s[23] = OP_EQUAL

\* OP_0 <32 bytes>.
IsWitnessScriptHash(s) == Len(s) = 34 /\ s[1] = OP_0 /\ s[2] = OP_DATA_32

GetScriptClass(s) ==
    CASE IsMultiSig(s)          -> MultiSig
      [] IsScriptHash(s)        -> P2SH
      [] IsWitnessScriptHash(s) -> P2WSH
      [] OTHER                  -> Other

\* Mutant of GetUtxoKey: the P2SH hash is sliced one byte early.
GetUtxoKeyShifted(scriptPk) ==
    CASE GetScriptClass(scriptPk) = MultiSig -> Hex(Hash160(scriptPk))
      [] GetScriptClass(scriptPk) = P2SH     -> Hex(Slice(scriptPk, 1, 21))
      [] GetScriptClass(scriptPk) = P2WSH    -> Hex(Ripemd160(Slice(scriptPk, 2, 34)))
      [] OTHER                               -> <<>>

\* The key of a multisig script is its HASH160; a P2SH script carries that
\* hash in bytes 2..22; a P2WSH script carries the sha256 in bytes 2..34,
\* which ripemd160 completes to the HASH160.  Any other script: "".
GetUtxoKey(scriptPk) ==
    CASE GetScriptClass(scriptPk) = MultiSig -> Hex(Hash160(scriptPk))
      [] GetScriptClass(scriptPk) = P2SH     -> Hex(Slice(scriptPk, 2, 22))
      [] GetScriptClass(scriptPk) = P2WSH    -> Hex(Ripemd160(Slice(scriptPk, 2, 34)))
      [] OTHER                               -> <<>>

-----------------------------------------------------------------------------
(* Reference: the binding key of a redeem script (spec.md glossary) and    *)
(* the two output scripts that lock to it (BIP 16, BIP 141).               *)

BindingKey(r)  == Hex(Hash160(r))
P2SHScript(r)  == <<OP_HASH160, OP_DATA_20>> \o Hash160(r) \o <<OP_EQUAL>>
P2WSHScript(r) == <<OP_0, OP_DATA_32>> \o Sha256(r)
Locks(r)       == {r, P2SHScript(r), P2WSHScript(r)}
=============================================================================
