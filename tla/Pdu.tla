-------------------------------- MODULE Pdu ---------------------------------
(***************************************************************************)
(* PDUs as bytes: what createPDU and its callers write, what the receivers *)
(* read, and what errorFlipBits does in between.  The rest of the project  *)
(* takes for granted what is checked here: that a PDU with a flipped byte  *)
(* is rejected by every receiver (Network!Corrupted), and that any other   *)
(* is read as what its sender put in (Network!DataPDU and ControlPDU).     *)
(*                                                                         *)
(* The eight flags are kept apart as far as their payloads are: a block of *)
(* data; a status, or nothing; a number; a file name with the sizes of the *)
(* window and of the blocks.                                               *)
(***************************************************************************)
EXTENDS Checksum

CONSTANTS
    MaxPayload,     \* 1400 in the code: the longest block
    MaxName,        \* 100 in the code: the longest file name
    SeqNumBytes,    \* in how many of its lower bytes a number differs from 0
    SizeBytes       \* the same for a window size or a buffer size

HeaderLen == 7

(* The flags are bytes; the 1407 bytes of the longest PDU are so few shorts *)
(* that their sum is below 2^32.                                           *)
ASSUME PduAssumption ==
    /\ {MaxPayload, MaxName} \subseteq Nat
    /\ {SeqNumBytes, SizeBytes} \subseteq 0 .. 4
    /\ ByteSize >= 4
    /\ HeaderLen + MaxPayload <= 2 * WordSize
    /\ HeaderLen + 8 + MaxName + 1 <= 2 * WordSize

FlagData == 0       \* FLAG_DATA
FlagStatus == 1     \* FLAG_FILENAME_RESPONSE, FLAG_EOF, FLAG_EOF_ACK, FLAG_FINAL_ACK
FlagNumber == 2     \* FLAG_RR, FLAG_SREJ
FlagFilename == 3   \* FLAG_FILENAME

VARIABLES
    meant,      \* what the sender puts into the PDU
    pdu,        \* the PDU, on its way to a receiver
    flipped     \* have its bits been flipped?

vars == <<meant, pdu, flipped>>

-----------------------------------------------------------------------------

(* The uint32_t that four bytes in memory are, the lowest first, and the   *)
(* bytes of a uint32_t.                                                    *)
HostValue(b) == b[1] + ByteSize * (b[2] + ByteSize * (b[3] + ByteSize * b[4]))

HostBytes(n) == CHOOSE b \in [1 .. 4 -> Byte] : HostValue(b) = n

(* htonl and ntohl are one: they reverse the bytes. *)
Htonl(n) == HostValue(Reverse(HostBytes(n)))

(* What memcpy of a uint32_t finds behind the first offset bytes. *)
Uint32At(bytes, offset) == HostValue(SubSeq(bytes, offset + 1, offset + 4))

(* createPDU, of the sequence number, the flag and the payload. *)
CreatePDU(seqNum, flag, payload) ==
    LET field == HostBytes(Htonl(seqNum))
        checksum == InCksum(field \o <<0, 0, flag>> \o payload)
    IN  field \o <<checksum % ByteSize, checksum \div ByteSize, flag>> \o payload

ValidateChecksum(bytes) == InCksum(bytes) = 0

GetSequenceNum(bytes) == Htonl(Uint32At(bytes, 0))

GetFlag(bytes) == bytes[7]

GetPayloadLen(bytes) == Len(bytes) - HeaderLen

(* getControlSeqNum: the number an RR or an SREJ carries. *)
GetControlSeqNum(bytes) == Htonl(Uint32At(bytes, HeaderLen))

(* sendRR and sendSREJOnce: their payload. *)
NumberPayload(number) == HostBytes(Htonl(number))

(* sendFilenameState: window size, buffer size and the name with its NUL.  *)
FilenamePayload(request) ==
    HostBytes(Htonl(request.window)) \o HostBytes(Htonl(request.buffer))
      \o request.name \o <<0>>

(* strncpy: the bytes up to the NUL, but at most n. *)
CString(bytes, n) ==
    LET end == CHOOSE k \in 0 .. n : /\ \A i \in 1 .. k : bytes[i] # 0
                                     /\ k = n \/ bytes[k + 1] = 0
    IN  SubSeq(bytes, 1, end)

(* Mutant: a name that fills its array loses its last byte. *)
ParseFilenamePacketShort(bytes) ==
    [window |-> Htonl(Uint32At(bytes, HeaderLen)),
     buffer |-> Htonl(Uint32At(bytes, HeaderLen + 4)),
     name   |-> CString(SubSeq(bytes, HeaderLen + 9, Len(bytes)), MaxName - 1)]

(* parseFilenamePacket, once the PDU is long enough. *)
ParseFilenamePacket(bytes) ==
    [window |-> Htonl(Uint32At(bytes, HeaderLen)),
     buffer |-> Htonl(Uint32At(bytes, HeaderLen + 4)),
     name   |-> CString(SubSeq(bytes, HeaderLen + 9, Len(bytes)), MaxName)]

LongEnough(bytes) == Len(bytes) >= HeaderLen + 8 + 1

(* ^= 0xFF *)
Flipped(byte) == ByteSize - 1 - byte

-----------------------------------------------------------------------------

Number(n) == {HostValue(b) : b \in {c \in [1 .. 4 -> Byte] : \A i \in n + 1 .. 4 : c[i] = 0}}

Block == UNION {[1 .. n -> Byte] : n \in 1 .. MaxPayload}
Status == {<<>>} \cup {<<b>> : b \in Byte}
Name == UNION {[1 .. n -> Byte \ {0}] : n \in 0 .. MaxName}
Request == [window : Number(SizeBytes) \ {0}, buffer : Number(SizeBytes) \ {0}, name : Name]

(* What the programs send.  The number in the header of a FILENAME counts  *)
(* its retries.                                                            *)
Init ==
    /\ \/ \E m \in [flag : {FlagData}, seq : Number(SeqNumBytes), data : Block]
                   \cup [flag : {FlagStatus}, seq : Number(SeqNumBytes), data : Status] :
            /\ meant = m
            /\ pdu = CreatePDU(m.seq, m.flag, m.data)
       \/ \E m \in [flag : {FlagNumber}, seq : Number(SizeBytes), number : Number(SeqNumBytes)] :
            /\ meant = m
            /\ pdu = CreatePDU(m.seq, m.flag, NumberPayload(m.number))
       \/ \E m \in [flag : {FlagFilename}, seq : Number(1), request : Request] :
            /\ meant = m
            /\ pdu = CreatePDU(m.seq, m.flag, FilenamePayload(m.request))
    /\ flipped = FALSE

TypeOK ==
    /\ meant.flag \in {FlagData, FlagStatus, FlagNumber, FlagFilename}
    /\ pdu \in Seq(Byte)
    /\ Len(pdu) >= HeaderLen
    /\ flipped \in BOOLEAN

(* errorFlipBits::run *)
FlipBits ==
    /\ ~ flipped
    /\ \E byteToFlip \in DOMAIN pdu : pdu' = [pdu EXCEPT ![byteToFlip] = Flipped(@)]
    /\ flipped' = TRUE
    /\ UNCHANGED meant

Next == FlipBits

Spec == Init /\ [][Next]_vars

-----------------------------------------------------------------------------

(* A receiver accepts what createPDU made, and rejects it if any one byte  *)
(* was flipped, in the checksum or out of it, paired or not.               *)
FlipIsDetected == ValidateChecksum(pdu) <=> ~ flipped

(* The checksum is the complement of the sum in ones' complement, where    *)
(* each carry is added as it occurs: the two folds at the end miss none.   *)
EndAroundAdd(a, b) == IF a + b < WordSize THEN a + b ELSE a + b - WordSize + 1

EndAroundTotal(words) ==
    LET sum[n \in 0 .. Len(words)] == IF n = 0 THEN 0 ELSE EndAroundAdd(sum[n - 1], words[n])
    IN  sum[Len(words)]

SumsInOnesComplement == InCksum(pdu) = WordSize - 1 - EndAroundTotal(Words(pdu))

(* What a receiver reads is what the sender put in: the functions that     *)
(* write PDUs and those that read them were written apart, in three files, *)
(* and agree on the place and the byte order of every number, on which of  *)
(* the two numbers of an RR counts, on the length of the last block and on *)
(* a name of the longest length.                                           *)
ReadAsSent ==
    ~ flipped =>
        /\ GetSequenceNum(pdu) = meant.seq
        /\ GetFlag(pdu) = meant.flag
        /\ meant.flag \in {FlagData, FlagStatus} =>
             SubSeq(pdu, HeaderLen + 1, HeaderLen + GetPayloadLen(pdu)) = meant.data
        /\ meant.flag = FlagNumber => GetControlSeqNum(pdu) = meant.number
        /\ meant.flag = FlagFilename =>
             LongEnough(pdu) /\ ParseFilenamePacket(pdu) = meant.request
=============================================================================
