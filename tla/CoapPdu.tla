------------------------------ MODULE CoapPdu ------------------------------
(***************************************************************************)
(* CoAP messages as bytes: the options that a request gets from Coap, how  *)
(* they are packed, and how the options of an answer are unpacked.  What   *)
(* the other end makes of the bytes, and how it writes its own, is taken   *)
(* from RFC 7252.  The header and the token have fixed places and are left *)
(* out.                                                                    *)
(***************************************************************************)
EXTENDS Integers, SequencesExt

CONSTANTS
    Requests,    \* what is asked for: records as in Wanted
    Answers,     \* what servers answer: sequences of options, and a payload
    BlockSize    \* bytes of a block: 64 in the code

VARIABLES
    pdu,        \* the message that is put together: its options and its payload
    datagram,   \* the bytes on the network
    wanted,     \* the message that either side wants to send
    phase       \* "idle", then "asked", or "answering" and "answered"

Option(number, data) == [number |-> number, data |-> data]

UriHost == 3  Observe == 6  UriPort == 7  UriPath == 11  ContentFormat == 12
UriQuery == 15  Block2 == 23  Block1 == 27
PayloadMarker == 255

Empty == [options |-> <<>>, payload |-> <<>>]

-----------------------------------------------------------------------------
(* Putting a message together *)

\* Mutant of AddOption.
AddOption_First(message, option) ==
    [message EXCEPT !.options = <<option>> \o @]

\* addOption(): behind the first option with a greater number, or at the end
AddOption(message, option) ==
    LET options == message.options
        later == {i \in DOMAIN options : options[i].number > option.number}
        index == IF later = {} THEN Len(options) ELSE CHOOSE i \in later : \A j \in later : i <= j
    IN  [message EXCEPT !.options =
            SubSeq(options, 1, index) \o <<option>> \o SubSeq(options, index + 1, Len(options))]

\* createBlock(): the number has eight bits.
CreateBlock(number, more) ==
    LET low(n) == (n % 16) * 16 + (IF more THEN 8 ELSE 0) + 2 IN
    IF number < 16 THEN <<low(number)>> ELSE <<(number % 256) \div 16, low(number)>>

Decimal == <<53, 54, 56, 52>>   \* a port as text

\* The options of a request up to its path, and its query, which may be absent
Address(r) ==
    (IF r.lookedUp THEN <<Option(UriHost, <<104>>)>> ELSE <<>>)
    \o (CASE r.observe = "enable" -> <<Option(Observe, <<>>)>>
          [] r.observe = "disable" -> <<Option(Observe, <<49>>)>>
          [] OTHER -> <<>>)
    \o (IF r.otherPort THEN <<Option(UriPort, Decimal)>> ELSE <<>>)
    \o [i \in DOMAIN r.path |-> Option(UriPath, r.path[i])]

Query(r) == [i \in DOMAIN r.query |-> Option(UriQuery, r.query[i])]

Built(options, payload) ==
    [FoldLeft(AddOption, Empty, options) EXCEPT !.payload = payload]

First(payload) == SubSeq(payload, 1, IF Len(payload) < BlockSize THEN Len(payload) ELSE BlockSize)

\* sendRequest()
FirstRequest(r) ==
    LET blocks == Len(r.payload) > BlockSize IN
    Built(Address(r)
          \o (IF r.uploads
              THEN <<Option(ContentFormat, <<r.format>>)>>
                   \o (IF blocks THEN <<Option(Block1, CreateBlock(0, TRUE))>> ELSE <<>>)
              ELSE <<>>)
          \o Query(r)
          \o (IF r.uploads THEN <<>> ELSE <<Option(Block2, CreateBlock(0, FALSE))>>),
          IF r.uploads THEN First(r.payload) ELSE <<>>)

\* processBlock1Response() and processBlock2Response(): the block after r.block
NextRequest(r) ==
    Built(Address([r EXCEPT !.observe = "no"]) \o Query(r)
          \o <<IF r.uploads THEN Option(Block1, CreateBlock(r.block + 1, r.more))
               ELSE Option(Block2, CreateBlock(r.block + 1, FALSE))>>,
          IF r.uploads THEN First(r.payload) ELSE <<>>)

-----------------------------------------------------------------------------
(* Packing *)

\* What a delta or a length adds to the option byte, and the bytes after it
Nibble(n) == IF n < 13 THEN n ELSE IF n < 270 THEN 13 ELSE 14

\* A byte that is 0 is not written; of 16 bits only the lower ones are.
DeltaBytes(n) ==
    LET extended == IF n < 13 THEN 0 ELSE IF n < 270 THEN (n - 13) % 256 ELSE (n - 269) % 256
    IN  IF extended = 0 THEN <<>> ELSE <<extended>>

\* ... of a length not even these
LengthBytes(n) ==
    IF n < 270 THEN DeltaBytes(n)
    ELSE IF (n - 269) % 256 = 0 THEN <<>> ELSE <<0>>

\* QByteArray::append(const char *): up to the first 0
CString(bytes) ==
    LET zeros == {i \in DOMAIN bytes : bytes[i] = 0} IN
    IF zeros = {} THEN bytes
    ELSE SubSeq(bytes, 1, (CHOOSE i \in zeros : \A j \in zeros : i <= j) - 1)

PackedOption(options, i) ==
    LET previous == IF i = 1 THEN 0 ELSE options[i - 1].number
        delta == (options[i].number - previous) % 65536
        length == Len(options[i].data)
    IN  <<Nibble(delta) * 16 + Nibble(length)>> \o DeltaBytes(delta) \o LengthBytes(length)
        \o options[i].data

\* pack()
Pack(message) ==
    FlattenSeq([i \in DOMAIN message.options |-> PackedOption(message.options, i)])
    \o (IF message.payload = <<>> THEN <<>> ELSE <<PayloadMarker>> \o CString(message.payload))

-----------------------------------------------------------------------------
(* Unpacking *)

\* A byte array ends with a 0.
At(bytes, i) == IF i \in DOMAIN bytes THEN bytes[i] ELSE 0

Int16(bytes, i) == At(bytes, i) * 256 + At(bytes, i + 1)

DeltaAt(bytes, i, nibble) ==
    CASE nibble = 13 -> (At(bytes, i) + 13) % 256
      [] nibble = 14 -> (Int16(bytes, i) + 269) % 65536
      [] nibble = 15 -> 0
      [] OTHER -> nibble

\* The extension of a length is subtracted where it is to be added.
LengthAt(bytes, i, nibble) ==
    CASE nibble = 13 -> (At(bytes, i) - 13) % 256
      [] nibble = 14 -> (Int16(bytes, i) - 269) % 65536
      [] OTHER -> nibble

Extension(nibble) == CASE nibble = 13 -> 1 [] nibble = 14 -> 2 [] OTHER -> 0

\* The loop of unpack(): it ends at a 0, and it looks for a payload only after an option.
RECURSIVE UnpackOptions(_, _, _, _)
UnpackOptions(bytes, i, number, message) ==
    LET byte == At(bytes, i)
        high == byte \div 16
        low == byte % 16
        lengthAt == i + 1 + Extension(high)
        length == LengthAt(bytes, lengthAt, low)
        dataAt == lengthAt + Extension(low)
        next == dataAt + length
        read == AddOption(message, Option((number + DeltaAt(bytes, i + 1, high)) % 65536,
                                          [j \in 1..length |-> At(bytes, dataAt + j - 1)]))
    IN  CASE byte \in {0, PayloadMarker} -> message
          [] At(bytes, next) = PayloadMarker ->
                [read EXCEPT !.payload = SubSeq(bytes, next + 1, Len(bytes))]
          [] OTHER -> UnpackOptions(bytes, next, number + DeltaAt(bytes, i + 1, high), read)

\* unpack()
Unpack(bytes) == UnpackOptions(bytes, 1, 0, Empty)

\* CoapPduBlock(blockData): of the number eight bits are read.  Blocks of other sizes
\* are never initialized.
BlockOf(data) ==
    [number |-> IF Len(data) = 1 THEN data[1] \div 16
                ELSE (data[1] % 16) * 16 + data[2] \div 16,
     more |-> (data[Len(data)] \div 8) % 2 = 1]

-----------------------------------------------------------------------------
(* The other end: RFC 7252, section 3.1, and draft-ietf-core-block, section 2.2 *)

Extended(n) ==
    CASE n < 13 -> <<>>
      [] n >= 13 /\ n < 269 -> <<n - 13>>
      [] OTHER -> <<(n - 269) \div 256, (n - 269) % 256>>

RfcNibble(n) == CASE n < 13 -> n [] n >= 13 /\ n < 269 -> 13 [] OTHER -> 14

Encoded(message) ==
    FlattenSeq([i \in DOMAIN message.options |->
        LET delta == message.options[i].number
                     - (IF i = 1 THEN 0 ELSE message.options[i - 1].number)
            length == Len(message.options[i].data)
        IN  <<RfcNibble(delta) * 16 + RfcNibble(length)>>
            \o Extended(delta) \o Extended(length) \o message.options[i].data])
    \o (IF message.payload = <<>> THEN <<>> ELSE <<PayloadMarker>> \o message.payload)

RfcBlock(number, more) ==
    LET low == (number % 16) * 16 + (IF more THEN 8 ELSE 0) + 2 IN
    IF number < 16 THEN <<low>> ELSE <<number \div 16, low>>

\* A server that reads bytes as a message is sent by Encoded has read that message:
\* the encoding is injective.
Reads(bytes, message) == bytes = Encoded(message)

\* What a request means to say, its options by number
Wanted(r) ==
    LET number == IF r.next THEN r.block + 1 ELSE 0
        more == IF r.next THEN r.more ELSE TRUE
        blocks == r.next \/ Len(r.payload) > BlockSize
    IN  [options |->
            Address(IF r.next THEN [r EXCEPT !.observe = "no"] ELSE r)
            \o (IF r.uploads /\ ~r.next THEN <<Option(ContentFormat, <<r.format>>)>> ELSE <<>>)
            \o Query(r)
            \o (CASE ~r.uploads -> <<Option(Block2, RfcBlock(number, FALSE))>>
                  [] r.uploads /\ blocks -> <<Option(Block1, RfcBlock(number, more))>>
                  [] OTHER -> <<>>),
         payload |-> IF r.uploads THEN First(r.payload) ELSE <<>>]

-----------------------------------------------------------------------------

CoapPduInit ==
    /\ pdu = Empty /\ datagram = <<>> /\ wanted = Empty
    /\ phase = "idle"

\* A request is put together and sent.
SendPdu(r) ==
    /\ phase = "idle"
    /\ phase' = "asked"
    /\ wanted' = Wanted(r)
    /\ pdu' = IF r.next THEN NextRequest(r) ELSE FirstRequest(r)
    /\ datagram' = Pack(pdu')

\* A server answers, or notifies.
Answer(message) ==
    /\ phase = "idle"
    /\ phase' = "answering"
    /\ wanted' = message
    /\ datagram' = Encoded(message)
    /\ UNCHANGED pdu

\* The answer is unpacked.
ReceivePdu ==
    /\ phase = "answering"
    /\ phase' = "answered"
    /\ pdu' = Unpack(datagram)
    /\ UNCHANGED <<wanted, datagram>>

CoapPduNext ==
    \/ \E r \in Requests : SendPdu(r)
    \/ \E message \in Answers : Answer(message)
    \/ ReceivePdu

coapPduVars == <<pdu, datagram, wanted, phase>>

-----------------------------------------------------------------------------

Blocks == {Block1, Block2}

OptionsOf(message) == {message.options[i] : i \in DOMAIN message.options}

\* A request is what its bytes say, and they say it in the order of RFC 7252, unless
\*   - a value has 13 bytes, or more than 269: its length is not written,
\*   - its payload contains a 0: the rest is not written,
\*   - the number of its block exceeds eight bits,
\*   - or it has both a block of payload and a query: Block1 comes before UriQuery.
Expressible(message) ==
    /\ \A o \in OptionsOf(message) :
        /\ Len(o.data) # 13 /\ Len(o.data) < 269
        /\ o.number \in Blocks /\ Len(o.data) = 2 => o.data[1] < 16
    /\ \A i \in DOMAIN message.payload : message.payload[i] # 0
    /\ ~({ContentFormat, UriQuery, Block1} \subseteq {o.number : o \in OptionsOf(message)})

RequestsUnderstood ==
    phase = "asked" /\ Expressible(wanted) => Reads(datagram, wanted)

\* An answer is unpacked as it was meant, unless a value has more than 12 bytes, an
\* empty option is repeated, the number of its block exceeds eight bits, or it has a
\* payload and no options.
Readable(message) ==
    /\ \A i \in DOMAIN message.options :
        LET o == message.options[i] IN
        /\ Len(o.data) < 13
        /\ i > 1 /\ o.data = <<>> => message.options[i - 1].number # o.number
        /\ o.number \in Blocks /\ Len(o.data) = 2 => o.data[1] < 16
    /\ message.payload # <<>> => message.options # <<>>

AnswersUnderstood ==
    phase = "answered" /\ Readable(wanted) =>
        /\ pdu = wanted
        /\ \A o \in OptionsOf(pdu) : o.number \in Blocks =>
            o.data = RfcBlock(BlockOf(o.data).number, BlockOf(o.data).more)

\* The options of a request are in the order of their numbers (addOption()'s comment:
\* "keep the list sorted to ensure a positiv option delta").
OptionsSorted ==
    phase = "asked" =>
        \A i, j \in DOMAIN pdu.options : i < j => pdu.options[i].number <= pdu.options[j].number
=============================================================================
