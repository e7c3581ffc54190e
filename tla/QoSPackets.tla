----------------------------- MODULE QoSPackets -----------------------------
(***************************************************************************)
(* The packets of the QoS extension: the byte array they are built in      *)
(* (bytearray.cc), the link state report that LinkMon writes and the       *)
(* topology manager reads (lsmpacket.cc in src/tm_ext, lsmpacket.cpp in    *)
(* lib/qos, two copies of one class), and the metadata of an item          *)
(* (metadatapacket.cpp).  A byte array is the sequence of its bytes, a     *)
(* link identifier the set of its bits, a QoSList a function from keys.    *)
(***************************************************************************)
EXTENDS Integers, Sequences, FiniteSets, SequencesExt, FiniteSetsExt

CONSTANTS
  FID_LEN,         \* bytes of a link identifier
  PURSUIT_ID_LEN   \* bytes of an identifier, NODEID_LEN too

QoS_REPORT == 107
QoS_METADATA == 108
QoS_CAPACITY_M == 1
QoS_NETTYPE == 10
PRIO == 15
QoS_ITEM_SIZE == 3

-----------------------------------------------------------------------------
(* ByteArray.  Offsets count from 0; what extend() adds is not set.        *)

extend(d, n) == d \o [i \in 1 .. n |-> 0]
At(d, offset) == d[offset + 1]
Put(d, offset, b) == [d EXCEPT ![offset + 1] = b]

(* A byte and, if there is one, the byte after it. *)
TwoBytes(d, ob) == 256 * At(d, ob) + IF ob + 1 < Len(d) THEN At(d, ob + 1) ELSE 0

(* setBits(byte, ...): the low bits of b, from bit bo of byte ob on *)
setBits8(d, b, lownum, ob, bo) ==
  LET place == 2^(16 - lownum - bo)
      old == (TwoBytes(d, ob) \div place) % 2^lownum
      new == TwoBytes(d, ob) + ((b % 2^lownum) - old) * place
  IN  IF lownum > 8 \/ bo > 8 \/ ob > Len(d) - 1 \/ lownum \div 8 + ob > Len(d) THEN d
      ELSE [i \in 1 .. Len(d) |-> CASE i = ob + 1 -> new \div 256
                                    [] i = ob + 2 -> new % 256
                                    [] OTHER -> d[i]]

(* The loop over bytes, in both of the following. *)
SetEach(d, bytes, ob, bo) ==
  FoldLeft(LAMBDA e, k : setBits8(e, bytes[k], 8, ob + k - 1, bo),
           d, [k \in 1 .. Len(bytes) |-> k])

(* setBits(uint64_t, ...), of at most 56 bits: whole bytes are written,    *)
(* also when lownum is not a multiple of 8.                                *)
setBits(d, b, lownum, ob, bo) ==
  LET to == (lownum + 7) \div 8
  IN  IF lownum \div 8 + ob > Len(d) THEN d
      ELSE SetEach(d, [k \in 1 .. to |-> (b \div 2^(8 * (to - k))) % 256], ob, bo)
setBytes(d, bytes, ob, bo) ==
  IF Len(bytes) + ob > Len(d) THEN d ELSE SetEach(d, bytes, ob, bo)

getBits8_ORLESS(d, num, ob, bo) == (TwoBytes(d, ob) \div 2^(16 - num - bo)) % 2^num

(* getBits(): the incomplete byte first *)
getBits(d, num, ob, bo) ==
  LET first == num % 8
      head == IF first = 0 THEN 0 ELSE getBits8_ORLESS(d, first, ob, bo)
      at == 8 * ob + bo + first
  IN  FoldLeft(LAMBDA res, k : 256 * res
                  + getBits8_ORLESS(d, 8, (at + 8 * (k - 1)) \div 8, at % 8),
               head, [k \in 1 .. num \div 8 |-> k])
getStrBytes(d, num, ob) == IF num + ob > Len(d) THEN <<>> ELSE SubSeq(d, ob + 1, ob + num)

-----------------------------------------------------------------------------
(* A QoSList: a key and two bytes for every item, in the order of the keys *)

(* The k-th key is the one with k - 1 smaller ones. *)
Keys(q) ==
  [k \in 1 .. Cardinality(DOMAIN q) |->
     CHOOSE key \in DOMAIN q : Cardinality({j \in DOMAIN q : j < key}) = k - 1]

\* Mutant: the next item begins where the value of the last one does.
OverlappingItems(d, pos, q) ==
  FoldLeft(LAMBDA e, k : setBits(Put(e, pos + 2 * (k - 1), Keys(q)[k]),
                                 q[Keys(q)[k]], 16, pos + 2 * (k - 1) + 1, 0),
           d, [k \in 1 .. Len(Keys(q)) |-> k])
PutItems(d, pos, q) ==
  FoldLeft(LAMBDA e, k : setBits(Put(e, pos + QoS_ITEM_SIZE * (k - 1), Keys(q)[k]),
                                 q[Keys(q)[k]], 16, pos + QoS_ITEM_SIZE * (k - 1) + 1, 0),
           d, [k \in 1 .. Len(Keys(q)) |-> k])

(* The last of two items with one key counts. *)
GetItems(d, pos, len) ==
  LET offset(k) == pos + QoS_ITEM_SIZE * (k - 1)
  IN  [key \in {At(d, offset(k)) : k \in 1 .. len} |->
         getBits(d, 16, 1 + offset(Max({k \in 1 .. len : At(d, offset(k)) = key})), 0)]

-----------------------------------------------------------------------------
(* LSMPacket *)

LSM_HDR_LEN == 1 + PURSUIT_ID_LEN + 1

LSMPacket == Put(extend(<<>>, LSM_HDR_LEN), 0, QoS_REPORT)
setNodeId(d, id) == setBytes(d, id, 1, 0)
getNodeId(d) == getStrBytes(d, PURSUIT_ID_LEN, 1)
getLinksLen(d) == At(d, PURSUIT_ID_LEN + 1)
setRepLen(d, len) == Put(d, PURSUIT_ID_LEN + 1, len % 256)

BytesOf(bv) ==
  [k \in 1 .. FID_LEN |->
     MapThenSumSet(LAMBDA bit : 2^(8 * k - 1 - bit), {bit \in bv : bit \div 8 = k - 1})]

(* As LinkMon uses it, in src/tm_ext. *)
appendLinkStatus(d, bv, q) ==
  LET e == setBytes(extend(d, FID_LEN + 1 + Cardinality(DOMAIN q) * QoS_ITEM_SIZE),
                    BytesOf(bv), Len(d), 0)
  IN  setRepLen(PutItems(Put(e, Len(d) + FID_LEN, Cardinality(DOMAIN q)), Len(d) + FID_LEN + 1, q),
                getLinksLen(d) + 1)

(* As the topology manager uses it, in lib/qos. *)
getLinkOffset(d, index) ==
  LET offset[i \in 0 .. index] ==
        IF i = 0 THEN LSM_HDR_LEN
        ELSE LET list == offset[i - 1] + FID_LEN IN list + At(d, list) * QoS_ITEM_SIZE + 1
  IN  offset[index]
getLidStr(d, index) ==
  {bit \in 0 .. 8 * FID_LEN - 1 :
     getBits8_ORLESS(d, 1, getLinkOffset(d, index) + bit \div 8, bit % 8) = 1}
getStatusListLen(d, index) == At(d, getLinkOffset(d, index) + FID_LEN)
getLinkStatus(d, index) ==
  GetItems(d, getLinkOffset(d, index) + FID_LEN + 1, getStatusListLen(d, index))

-----------------------------------------------------------------------------
(* MetaDataPacket *)

META_HDR_LEN == 1 + 1 + 1

MetaDataPacket(idlen) ==
  Put(Put(extend(<<>>, idlen * PURSUIT_ID_LEN + META_HDR_LEN), 0, QoS_METADATA), 1, idlen)
getIDLen(d) == At(d, 1)
setID(d, id) == setBytes(Put(d, 1, Len(id) \div PURSUIT_ID_LEN), id, 2, 0)
getID_RAW(d) == getStrBytes(d, getIDLen(d) * PURSUIT_ID_LEN, 2)
appendIIStatus(d, q) ==
  LET pos == META_HDR_LEN + getIDLen(d) * PURSUIT_ID_LEN - 1
  IN  PutItems(Put(extend(d, Cardinality(DOMAIN q) * QoS_ITEM_SIZE), pos, Cardinality(DOMAIN q)),
               pos + 1, q)
getItemNum(d) == At(d, META_HDR_LEN + getIDLen(d) * PURSUIT_ID_LEN - 1)
getIIStatus(d) == GetItems(d, META_HDR_LEN + getIDLen(d) * PURSUIT_ID_LEN, getItemNum(d))
=============================================================================
