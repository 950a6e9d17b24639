---------------------------- MODULE CardStorage ----------------------------
(***************************************************************************)
(* The generic storage of a Java Card (libs/auth/src/java_card.ts) and the *)
(* transport below it (apdu.ts, card_reader.ts): a command is a chain of   *)
(* APDUs, a long response is fetched piece by piece, and data is spread    *)
(* over three data objects.  The card may leave between any two APDUs.     *)
(* Bytes are digits of base Base, which stands for 256; lengths are scaled *)
(* with it.                                                                *)
(***************************************************************************)
EXTENDS Naturals, Sequences, SequencesExt

CONSTANTS
    Base,               \* values of a byte
    MAX_COMMAND_APDU_DATA_LENGTH, MAX_RESPONSE_APDU_DATA_LENGTH,
    MaxTlv,             \* the longest TLV the card stores
    CAPACITY,           \* GENERIC_STORAGE_SPACE_CAPACITY_BYTES
    Documents,          \* the data a caller's schema accepts
    MaxCalls            \* bound on calls

ASSUME StorageAssumption ==
    /\ Base \in Nat /\ Base >= 8
    /\ MAX_COMMAND_APDU_DATA_LENGTH \in 1 .. Base - 1
    /\ MAX_RESPONSE_APDU_DATA_LENGTH \in Nat \ {0}
    /\ MaxTlv \in 5 .. Base * Base - 1
    /\ CAPACITY \in 0 .. 3 * (MaxTlv - 4)
    /\ Documents \subseteq Seq(0 .. Base - 1)

VARIABLES
    object,             \* the data objects on the card
    chain, response,    \* the card's half-received command, half-sent answer
    present,            \* is the card in the reader
    op,                 \* the call of the API that is under way
    calls

storageVars == <<object, chain, response, present, op, calls>>

\* GENERIC_STORAGE_SPACE.OBJECT_IDS
Objects == 1 .. 3

----------------------------------------------------------------------------
(* TLVs.  0x81 and 0x82 announce one and two bytes of length.              *)

Tag == 1
Short == Base \div 2
OneByte == Short + 1
TwoBytes == Short + 2

\* A slip to detect: a length a little over Short is written as one byte.
TlvLengthShort(n) ==
    IF n <= OneByte THEN <<n>>
    ELSE IF n < Base THEN <<OneByte, n>> ELSE <<TwoBytes, n \div Base, n % Base>>

TlvLength(n) ==
    IF n < Short THEN <<n>>
    ELSE IF n < Base THEN <<OneByte, n>> ELSE <<TwoBytes, n \div Base, n % Base>>

ConstructTlv(value) == <<Tag>> \o TlvLength(Len(value)) \o value

ParseTlv(tlv) ==
    LET lengthLength == IF tlv[2] = OneByte THEN 2 ELSE IF tlv[2] = TwoBytes THEN 3 ELSE 1
    IN SubSeq(tlv, 2 + lengthLength, Len(tlv))

\* The data the card takes from a TLV goes by its length bytes.
TlvValue(tlv) ==
    LET n == CASE tlv[2] = OneByte -> tlv[3]
               [] tlv[2] = TwoBytes -> tlv[3] * Base + tlv[4]
               [] OTHER -> tlv[2]
        value == ParseTlv(tlv)
    IN SubSeq(value, 1, IF n < Len(value) THEN n ELSE Len(value))

\* CardCommand.asCommandApdus: chained but for the last, at least one.
Pieces(data, size) ==
    LET n == (Len(data) + size - 1) \div size IN
    [i \in 1 .. (IF n = 0 THEN 1 ELSE n) |->
        SubSeq(data, (i - 1) * size + 1, IF i * size < Len(data) THEN i * size ELSE Len(data))]

Command(ins, payload) ==
    LET apdus == Pieces(payload, MAX_COMMAND_APDU_DATA_LENGTH) IN
    [i \in DOMAIN apdus |-> [ins |-> ins, data |-> apdus[i], chained |-> i < Len(apdus)]]

\* A data object is named by its tag list, here one byte.
GetData(id) == Command("get", <<id>>)
PutData(id, data) == Command("put", <<id>> \o ConstructTlv(data))

----------------------------------------------------------------------------

MAX_DATA_OBJECT_SIZE == MaxTlv - 4

\* A slip to detect: the bytes of the tag and the length are forgotten.
ChunkTooLong(data, i) ==
    LET size == MaxTlv - 2 IN
    SubSeq(data, size * (i - 1) + 1, IF size * i < Len(data) THEN size * i ELSE Len(data))

\* The part of data that goes to object i, empty when there is none.
Chunk(data, i) ==
    SubSeq(data, MAX_DATA_OBJECT_SIZE * (i - 1) + 1,
           IF MAX_DATA_OBJECT_SIZE * i < Len(data) THEN MAX_DATA_OBJECT_SIZE * i ELSE Len(data))

Stored == object[1] \o object[2] \o object[3]

NoCall == [kind |-> "idle", step |-> "none", data |-> <<>>, i |-> 0, apdus |-> <<>>,
         got |-> <<>>, answer |-> "none", read |-> <<>>]

StorageInit ==
    /\ object = [i \in Objects |-> <<>>]
    /\ chain = <<>> /\ response = <<>>
    /\ present = TRUE
    /\ op = NoCall
    /\ calls = 0

Return(o, answer) == [o EXCEPT !.step = "over", !.answer = answer, !.apdus = <<>>]

WriteFrom(o, i) == [o EXCEPT !.step = "write", !.i = i, !.apdus = PutData(i, Chunk(o.data, i))]

ReadFrom(o, i) ==
    [o EXCEPT !.step = "read", !.i = i, !.apdus = GetData(i), !.got = <<>>,
              !.read = IF i = 1 THEN <<>> ELSE o.read]

\* writeCardData, clearCardData (and unprogram), readCardData.
Call(kind, data) ==
    /\ op.step \in {"none", "over"}
    /\ calls < MaxCalls
    /\ calls' = calls + 1
    /\ LET o == [NoCall EXCEPT !.kind = kind, !.data = data] IN
       op' = IF kind = "readCardData" THEN ReadFrom(o, 1)
             ELSE IF Len(data) > CAPACITY THEN Return(o, "error") ELSE WriteFrom(o, 1)
    /\ UNCHANGED <<object, chain, response, present>>

WriteCardData == \E data \in Documents : Call("writeCardData", data)
ClearCardData == Call("clearCardData", <<>>)
ReadCardData == Call("readCardData", <<>>)

\* What a caller is told when all was read: nothing, a document, or an error
\* for data its schema does not accept.  writeCardData reads only to see that.
Judge(o) ==
    IF o.read = <<>> THEN Return(o, "ok")
    ELSE Return(o, IF o.read \in Documents THEN "ok" ELSE "garbled")

AfterRead(o, data) ==
    LET p == [o EXCEPT !.read = @ \o data] IN
    IF o.i < 3 THEN ReadFrom(p, o.i + 1) ELSE Judge(p)

AfterWrite(o) ==
    IF o.i < 3 THEN WriteFrom(o, o.i + 1)
    ELSE IF o.kind = "writeCardData" THEN ReadFrom(o, 1) ELSE Return(o, "ok")

Sending == op.step \in {"write", "read"}

SendChained ==
    /\ Sending /\ present /\ op.apdus # <<>>
    /\ Head(op.apdus).chained
    /\ chain' = chain \o Head(op.apdus).data
    /\ op' = [op EXCEPT !.apdus = Tail(@)]
    /\ UNCHANGED <<object, response, present, calls>>

\* The last APDU of a command that stores: the card refuses too long a TLV.
SendPut ==
    /\ Sending /\ present /\ op.apdus # <<>>
    /\ LET apdu == Head(op.apdus)
           command == chain \o apdu.data
           tlv == Tail(command)
       IN /\ apdu.ins = "put" /\ ~apdu.chained
          /\ chain' = <<>>
          /\ IF Len(tlv) > MaxTlv
             THEN op' = Return(op, "refused") /\ UNCHANGED object
             ELSE /\ op' = AfterWrite(op)
                  /\ object' = [object EXCEPT ![command[1]] = TlvValue(tlv)]
    /\ UNCHANGED <<response, present, calls>>

\* A slip to detect: a full piece announces another.
ReceivedFull(o, got, rest) ==
    IF rest = <<>> /\ Len(got) % MAX_RESPONSE_APDU_DATA_LENGTH # 0
    THEN AfterRead(o, ParseTlv(got)) ELSE [o EXCEPT !.got = got, !.apdus = <<>>]

Received(o, got, rest) ==
    IF rest = <<>> THEN AfterRead(o, ParseTlv(got)) ELSE [o EXCEPT !.got = got, !.apdus = <<>>]

\* The last APDU of a command that fetches: an empty object is "not found".
SendGet ==
    /\ Sending /\ present /\ op.apdus # <<>>
    /\ LET apdu == Head(op.apdus) IN
       /\ apdu.ins = "get" /\ ~apdu.chained
       /\ LET tlv == ConstructTlv(object[apdu.data[1]])
              pieces == Pieces(tlv, MAX_RESPONSE_APDU_DATA_LENGTH)
          IN IF object[apdu.data[1]] = <<>>
             THEN op' = AfterRead(op, <<>>) /\ response' = <<>>
             ELSE /\ response' = Tail(pieces)
                  /\ op' = Received(op, pieces[1], Tail(pieces))
    /\ UNCHANGED <<object, chain, present, calls>>

\* GET RESPONSE, as long as the card has more.
GetResponse ==
    /\ Sending /\ present /\ op.apdus = <<>> /\ response # <<>>
    /\ response' = Tail(response)
    /\ op' = Received(op, op.got \o Head(response), Tail(response))
    /\ UNCHANGED <<object, chain, present, calls>>

TransmitFails ==
    /\ Sending /\ ~present
    /\ op' = Return(op, "error")
    /\ UNCHANGED <<object, chain, response, present, calls>>

TakeOut ==
    /\ present
    /\ present' = FALSE
    /\ chain' = <<>> /\ response' = <<>>
    /\ UNCHANGED <<object, op, calls>>

PutIn ==
    /\ ~present /\ ~Sending
    /\ present' = TRUE
    /\ UNCHANGED <<object, chain, response, op, calls>>

StorageNext ==
    \/ WriteCardData \/ ClearCardData \/ ReadCardData
    \/ SendChained \/ SendPut \/ SendGet \/ GetResponse \/ TransmitFails
    \/ TakeOut \/ PutIn

\* A call runs on; nobody has to call, and nobody has to leave the card in.
CallRuns == SendChained \/ SendPut \/ SendGet \/ GetResponse \/ TransmitFails
StorageFairness == WF_storageVars(CallRuns)

----------------------------------------------------------------------------
(* Properties.                                                             *)

DoneIsStored ==
    /\ op.answer = "ok" /\ op.kind # "readCardData" => Stored = op.data
    /\ op.answer = "garbled" => op.kind = "readCardData"
    /\ op.answer # "refused"

ReadIsStored ==
    op.answer \in {"ok", "garbled"} /\ op.kind = "readCardData" => op.read = Stored

\* A write or clearing that is reported as done left exactly its data on the
\* card, for every length at a boundary of a TLV, an APDU or a data object, and
\* no write is refused by the card for its length.  A read that is answered
\* was given all that is stored, what a write that was cut off left of two
\* documents included.
DocumentsAreWhole == DoneIsStored /\ ReadIsStored

\* Every call ends, whatever the length of its data and wherever the card is
\* pulled: a chain is sent to its end and a response fetched to its end.
CallEnds == op.step \in {"write", "read"} ~> op.step = "over"
=============================================================================
