------------------------------- MODULE Codec --------------------------------
(***************************************************************************)
(* The binary framing of src/utils/utils.go: ToSignItem (the signing       *)
(* request, also the payload of the REST SignTx call) and SavedItem (the   *)
(* ledger's value).  Byte strings are sequences of naturals below 256;     *)
(* integers are written big-endian by binary.Write.                        *)
(*                                                                         *)
(* The transaction's wire encoding (MsgTx.BtcEncode) and the timestamp's   *)
(* (time.GobEncode) are abstracted to byte strings of the sets ValidTx and *)
(* ValidTime.  BtcDecode reads a transaction from the front of its buffer  *)
(* and ignores what follows; GobDecode accepts exactly one encoding.       *)
(***************************************************************************)
EXTENDS Naturals, Sequences, SequencesExt

CONSTANTS
    ValidTx,    \* byte strings BtcDecode accepts, none a prefix of another
    ValidTime,  \* byte strings GobDecode accepts
    AmtValues   \* satoshi amounts of the model

Item  == [tx : ValidTx, amts : Seq(AmtValues)]
Saved == [item : Item, time : ValidTime, done : BOOLEAN]

-----------------------------------------------------------------------------
(* binary.Write and binary.Read of unsigned integers                        *)

\* Mutant of PutUint: binary.LittleEndian.
RECURSIVE PutUintLE(_, _)
PutUintLE(n, w) == IF w = 0 THEN <<>> ELSE <<n % 256>> \o PutUintLE(n \div 256, w - 1)

\* binary.Write(&buf, binary.BigEndian, v) for a w-byte unsigned v.
RECURSIVE PutUint(_, _)
PutUint(n, w) == IF w = 0 THEN <<>> ELSE PutUint(n \div 256, w - 1) \o <<n % 256>>

\* The big-endian value of a byte string.
FromBE(bs) == FoldLeft(LAMBDA acc, b : acc * 256 + b, 0, bs)

Clamp(a, b) == IF a < b THEN a ELSE b

\* A reader's buffer: the n-byte slice "real" bytes of which are bs[base+1..],
\* the rest zero (what make() followed by a short Read leaves).  Kept as a
\* view so that a slice sized from a forged length is never built.
Whole(bs) == [bs |-> bs, base |-> 0, n |-> Len(bs), real |-> Len(bs)]

VByte(v, i) == IF i <= v.real THEN v.bs[v.base + i] ELSE 0

\* binary.Read of w bytes at offset p (bytes p+1 .. p+w) succeeds.
CanRead(v, p, w) == p + w <= v.n

ReadUint(v, p, w) == FromBE([j \in 1..w |-> VByte(v, p + j)])

\* bytes.Reader.Read into a fresh n-byte slice at offset p: io.EOF when
\* nothing is left, even for n = 0; otherwise it copies what is there, up
\* to n bytes, and the rest of the slice stays zero.  No error on a short read.
ReadEOF(v, p) == p >= v.n

ReadCount(v, p, n) == Clamp(n, v.n - p)

ReadInto(v, p, n) ==
    [bs |-> v.bs, base |-> v.base + p, n |-> n,
     real |-> Clamp(ReadCount(v, p, n), IF v.real > p THEN v.real - p ELSE 0)]

\* The decoder accepts encoding t at the front of buffer v (BtcDecode reads
\* what it needs and ignores the rest), or as the whole of v (GobDecode).
FrontIs(v, t) == Len(t) <= v.n /\ \A i \in 1..Len(t) : t[i] = VByte(v, i)
WholeIs(v, t) == Len(t) = v.n /\ FrontIs(v, t)

-----------------------------------------------------------------------------
(* ToSignItem                                                              *)

\* ToSignItem.Serialize: [u32 len][tx][u32 count][count x u64].
SerializeToSign(it) ==
    PutUint(Len(it.tx), 4) \o it.tx \o PutUint(Len(it.amts), 4)
        \o FlattenSeq([i \in 1..Len(it.amts) |-> PutUint(it.amts[i], 8)])

\* MsgTx.BtcDecode of a slice: the valid encoding at its front, if any.
BtcDecodes(v) == \E t \in ValidTx : FrontIs(v, t)
BtcDecode(v)  == CHOOSE t \in ValidTx : FrontIs(v, t)

Fail(alloc) == [ok |-> FALSE, alloc |-> alloc]

\* ToSignItem.Deserialize.  "alloc" counts the bytes the two make() calls
\* reserve from the length fields before any of the data is read.
DeserializeToSign(v) ==
    LET lenTx   == ReadUint(v, 0, 4)
        rawTx   == ReadInto(v, 4, lenTx)
        p       == 4 + ReadCount(v, 4, lenTx)
        lenAmts == ReadUint(v, p, 4)
        q       == p + 4
    IN  CASE ~CanRead(v, 0, 4)                -> Fail(0)
          [] ReadEOF(v, 4)                    -> Fail(lenTx)
          [] ~BtcDecodes(rawTx)               -> Fail(lenTx)
          [] ~CanRead(v, p, 4)                -> Fail(lenTx)
          [] ~CanRead(v, q, 8 * lenAmts)      -> Fail(lenTx + 8 * lenAmts)
          [] OTHER ->
               [ok    |-> TRUE,
                alloc |-> lenTx + 8 * lenAmts,
                item  |-> [tx   |-> BtcDecode(rawTx),
                           amts |-> [i \in 1..lenAmts |-> ReadUint(v, q + 8 * (i - 1), 8)]]]

-----------------------------------------------------------------------------
(* SavedItem                                                               *)

\* SavedItem.Serialize: [u32 len][ToSignItem][u32 len][time][bool].
SerializeSaved(s) ==
    LET raw == SerializeToSign(s.item)
    IN  PutUint(Len(raw), 4) \o raw \o PutUint(Len(s.time), 4) \o s.time
            \o <<IF s.done THEN 1 ELSE 0>>

\* Mutant of SavedDone: the flag byte is read only when it is there.
SavedDoneOptional(v, p) ==
    [present |-> TRUE, value |-> CanRead(v, p, 1) /\ VByte(v, p + 1) # 0]

\* binary.Read of a bool at offset p: one byte, true when it is not zero.
SavedDone(v, p) ==
    [present |-> CanRead(v, p, 1), value |-> CanRead(v, p, 1) /\ VByte(v, p + 1) # 0]

\* SavedItem.Deserialize: the ToSignItem is decoded from its own
\* (zero-padded) slice, then the time from its slice, then the flag.
DeserializeSaved(bs) ==
    LET v       == Whole(bs)
        lenItem == ReadUint(v, 0, 4)
        inner   == DeserializeToSign(ReadInto(v, 4, lenItem))
        p       == 4 + ReadCount(v, 4, lenItem)
        lenTr   == ReadUint(v, p, 4)
        rawTr   == ReadInto(v, p + 4, lenTr)
        r       == p + 4 + ReadCount(v, p + 4, lenTr)
        done    == SavedDone(v, r)
        time    == CHOOSE t \in ValidTime : WholeIs(rawTr, t)
    IN  CASE ~CanRead(v, 0, 4)         -> Fail(0)
          [] ReadEOF(v, 4)             -> Fail(lenItem)
          [] ~inner.ok                 -> Fail(lenItem + inner.alloc)
          [] ~CanRead(v, p, 4)         -> Fail(lenItem + inner.alloc)
          [] ReadEOF(v, p + 4)         -> Fail(lenItem + inner.alloc + lenTr)
          [] \A t \in ValidTime : ~WholeIs(rawTr, t)
                                       -> Fail(lenItem + inner.alloc + lenTr)
          [] ~done.present             -> Fail(lenItem + inner.alloc + lenTr)
          [] OTHER ->
               [ok    |-> TRUE,
                alloc |-> lenItem + inner.alloc + lenTr,
                item  |-> [item |-> inner.item, time |-> time, done |-> done.value]]
=============================================================================
