------------------------------ MODULE NestedValues ------------------------------
(* The readers and the measure of nested values: the engine's three readers of  *)
(* bencode (src/engine/strict-bencode.ts, tracker-http.ts, dht-wire.ts) and the *)
(* budget of the messages between main and the engine (src/shared/              *)
(* payload-budget.ts).  They walk their values recursively, as the code does,   *)
(* which is why they are apart from the other readers (EngineReaders).          *)
(* Documents are sequences of bytes read from left to right, tokens are bytes,  *)
(* numbers are runs of digits.  An index is "next unread byte"; Rejected is the *)
(* index of a failed read.  Weights is the reference the readers are held       *)
(* against: it is written from the grammar, not from a reader.                  *)
EXTENDS EngineServices, FiniteSetsExt

CONSTANTS
    InfoKey,        \* the key the scanner looks for: "info" in the code
    MaxSafeInteger  \* Number.MAX_SAFE_INTEGER

Minus == 45
Zero == 48
Nine == 57
Colon == 58
Dictionary == 100
End == 101
Integer == 105
List == 108

Rejected == 0

ByteAt(doc, i) == IF i \in 1..Len(doc) THEN doc[i] ELSE -1

IsDigit(byte) == byte \in Zero..Nine

\* The first index from i on that holds no digit.
AfterDigits(doc, i) ==
    CHOOSE j \in i..(Len(doc) + 1) :
        ~IsDigit(ByteAt(doc, j)) /\ \A k \in i..(j - 1) : IsDigit(doc[k])

\* The number the digits at i..j-1 spell.
Number(doc, i, j) ==
    FoldLeft(LAMBDA n, digit : 10 * n + digit - Zero, 0, SubSeq(doc, i, j - 1))

\* compareBytes(left, right) < 0.
Before(left, right) ==
    \/ \E i \in 1..Len(right) :
          /\ i - 1 <= Len(left)
          /\ SubSeq(left, 1, i - 1) = SubSeq(right, 1, i - 1)
          /\ i <= Len(left) => left[i] < right[i]
          /\ left # right

(* -------------------------- what was read so far ---------------------------- *)

\* A decoded value: a number, a byte string, a list or a map of byte strings.
NumberOf(n) == [type |-> "int", is |-> n]
ByteString(s) == [type |-> "bytes", is |-> s]
ListOf(items) == [type |-> "list", is |-> items]
MapOf(entries) == [type |-> "map", is |-> entries]

\* A decoder between two reads: the next byte, the values seen, the last value.
Read(at, values, value) == [at |-> at, values |-> values, value |-> value]

Undecodable == Read(Rejected, 0, NumberOf(0))

\* The number from an integer's first byte up to end.
Signed(doc, i, end) ==
    IF doc[i + 1] = Minus THEN -Number(doc, i + 2, end - 1) ELSE Number(doc, i + 1, end - 1)

(* ------------------------------- the grammar -------------------------------- *)

Digits(doc) == doc # <<>> /\ \A i \in 1..Len(doc) : IsDigit(doc[i])

\* A number written the one way bencode allows.
Canonical(doc) == Digits(doc) /\ (doc[1] = Zero => Len(doc) = 1)

IsInteger(doc) ==
    \E body \in {SubSeq(doc, 2, Len(doc) - 1)} :
        /\ Len(doc) > 2 /\ doc[1] = Integer /\ Last(doc) = End
        /\ \/ Canonical(body) /\ Number(body, 1, Len(body) + 1) <= MaxSafeInteger
           \/ /\ body[1] = Minus /\ Canonical(Tail(body)) /\ body[2] # Zero
              /\ Number(body, 2, Len(body) + 1) <= MaxSafeInteger

IsByteString(doc) ==
    \E i \in 2..Len(doc) :
        /\ doc[i] = Colon
        /\ Canonical(SubSeq(doc, 1, i - 1))
        /\ Len(doc) - i = Number(doc, 1, i)

Contents(string) ==
    SubSeq(string, 1 + CHOOSE i \in 1..Len(string) : string[i] = Colon
                       /\ \A j \in 1..(i - 1) : string[j] # Colon, Len(string))

RECURSIVE Weights(_, _), ItemWeights(_, _), EntryWeights(_, _, _)

\* The number of values a document holds when it is one value nested at most
\* depth deep: one number, or none when it is no such value.
Weights(doc, depth) ==
    IF depth < 0 \/ doc = <<>> THEN {}
    ELSE LET inner == SubSeq(doc, 2, Len(doc) - 1)
         IN  {1 : x \in {TRUE} \cap {IsInteger(doc) \/ IsByteString(doc)}}
             \cup (IF Last(doc) # End THEN {}
                   ELSE IF doc[1] = List
                   THEN {1 + w : w \in ItemWeights(inner, depth - 1)}
                   ELSE IF doc[1] = Dictionary
                   THEN {1 + w : w \in EntryWeights(inner, depth - 1, {})}
                   ELSE {})

\* The same for values one after the other.
ItemWeights(doc, depth) ==
    IF doc = <<>> THEN {0}
    ELSE UNION {{v + w : v \in Weights(SubSeq(doc, 1, i), depth),
                         w \in ItemWeights(SubSeq(doc, i + 1, Len(doc)), depth)}
                : i \in 1..Len(doc)}

\* The same for keys, each after the keys before it, and their values.
EntryWeights(doc, depth, before) ==
    IF doc = <<>> THEN {0}
    ELSE UNION
        {LET key == Contents(SubSeq(doc, 1, i))
         IN  {v + w : v \in Weights(SubSeq(doc, i + 1, j), depth),
                      w \in EntryWeights(SubSeq(doc, j + 1, Len(doc)), depth, {key})}
         : <<i, j>> \in
             {<<i, j>> \in (1..Len(doc)) \X (1..Len(doc)) :
                 /\ i < j
                 /\ IsByteString(SubSeq(doc, 1, i))
                 /\ \A key \in before : Before(key, Contents(SubSeq(doc, 1, i)))}}

RECURSIVE Encoding(_)

Decimal(n) == IF n < 10 THEN <<Zero + n>> ELSE <<Zero + (n \div 10), Zero + (n % 10)>>

Str(s) == Decimal(Len(s)) \o <<Colon>> \o s

\* The one encoding of a value.
Encoding(value) ==
    CASE value.type = "int" ->
           <<Integer>> \o (IF value.is < 0 THEN <<Minus>> \o Decimal(-value.is)
                                           ELSE Decimal(value.is)) \o <<End>>
      [] value.type = "bytes" -> Str(value.is)
      [] value.type = "list" ->
           <<List>> \o FoldLeft(LAMBDA doc, item : doc \o Encoding(item), <<>>, value.is)
                    \o <<End>>
      [] value.type = "map" ->
           <<Dictionary>>
             \o FoldLeft(LAMBDA doc, e : doc \o Str(e[1]) \o Encoding(e[2]), <<>>, value.is)
             \o <<End>>

(* -------------------------------- the scanner ------------------------------- *)

(* Every torrent file passes it before it is parsed (src/engine/strict-         *)
(* bencode.ts).  It builds nothing: it checks that the bytes are one canonical  *)
(* bencode dictionary within the limits and finds the bytes of the info         *)
(* dictionary, from which the torrent's identity is hashed.  The twelve error   *)
(* codes are one answer, refused: every caller treats them alike.               *)

CONSTANTS
    MaxTorrentBytes,    \* MAX_TORRENT_BYTES
    MaxScanDepth,       \* MAX_DEPTH
    MaxScanValues,      \* MAX_VALUES
    MaxIntegerDigits,   \* MAX_INTEGER_DIGITS
    MaxScanLengthDigits \* MAX_STRING_LENGTH_DIGITS

\* The scanner between two reads: the next byte, the values seen and the bytes
\* of the info dictionary (from its first byte up to the byte after its last).
Scan(at, values, info) == [at |-> at, values |-> values, info |-> info]

Unscannable == Scan(Rejected, 0, <<>>)

ScanByteString(doc, i) ==
    LET stop == AfterDigits(doc, i)
        end == stop + Number(doc, i, stop)
    IN  IF /\ stop - i \in 1..MaxScanLengthDigits
           /\ ByteAt(doc, stop) = Colon
           /\ doc[i] = Zero => stop = i + 1
           /\ end <= Len(doc)
        THEN end + 1
        ELSE Rejected

ScanInteger(doc, i) ==
    LET digits == IF ByteAt(doc, i + 1) = Minus THEN i + 2 ELSE i + 1
        stop == AfterDigits(doc, digits)
    IN  IF /\ stop - digits \in 1..MaxIntegerDigits
           /\ ByteAt(doc, stop) = End
           /\ doc[digits] = Zero => digits = i + 1 /\ stop = digits + 1
           /\ Number(doc, digits, stop) <= MaxSafeInteger
        THEN stop + 1
        ELSE Rejected

RECURSIVE ScanValue(_, _, _), ScanEntries(_, _, _, _, _), ScanItems(_, _, _)

\* Mutant: the keys' order is not checked.
ScanUnordered(doc, s, depth, top, before) ==
    IF s.at = Rejected THEN Unscannable
    ELSE IF ByteAt(doc, s.at) = End THEN [s EXCEPT !.at = @ + 1]
    ELSE LET next == ScanByteString(doc, s.at)
             value == ScanValue(doc, [s EXCEPT !.at = next], depth + 1)
         IN  IF next = Rejected THEN Unscannable
             ELSE ScanEntries(doc, value, depth, top, {})

\* What is left of a dictionary after the keys before.
ScanEntries(doc, s, depth, top, before) ==
    IF s.at = Rejected THEN Unscannable
    ELSE IF ByteAt(doc, s.at) = End THEN [s EXCEPT !.at = @ + 1]
    ELSE LET next == ScanByteString(doc, s.at)
             key == Contents(SubSeq(doc, s.at, next - 1))
             value == ScanValue(doc, [s EXCEPT !.at = next], depth + 1)
             isInfo == top /\ key = InfoKey
         IN  IF /\ next # Rejected
                /\ \A k \in before : Before(k, key)
                /\ isInfo => ByteAt(doc, next) = Dictionary
             THEN ScanEntries(doc,
                      IF isInfo THEN [value EXCEPT !.info = <<next, value.at>>]
                                ELSE value,
                      depth, top, {key})
             ELSE Unscannable

ScanItems(doc, s, depth) ==
    IF s.at = Rejected THEN Unscannable
    ELSE IF ByteAt(doc, s.at) = End THEN [s EXCEPT !.at = @ + 1]
    ELSE ScanItems(doc, ScanValue(doc, s, depth + 1), depth)

ScanValue(doc, s, depth) ==
    LET token == ByteAt(doc, s.at)
        counted == [s EXCEPT !.values = @ + 1]
        into == [counted EXCEPT !.at = @ + 1]
        past(i) == IF i = Rejected THEN Unscannable ELSE [counted EXCEPT !.at = i]
    IN  CASE depth > MaxScanDepth \/ counted.values > MaxScanValues -> Unscannable
          [] OTHER ->
             CASE token = Dictionary -> ScanEntries(doc, into, depth, FALSE, {})
               [] token = List -> ScanItems(doc, into, depth)
               [] token = Integer -> past(ScanInteger(doc, s.at))
               [] IsDigit(token) -> past(ScanByteString(doc, s.at))
               [] OTHER -> Unscannable

\* The whole document: one dictionary, nothing after it, and an info in it.
ScanTorrent(doc) ==
    LET s == ScanEntries(doc, Scan(2, 0, <<>>), 0, TRUE, {})
    IN  IF /\ Len(doc) <= MaxTorrentBytes
           /\ ByteAt(doc, 1) = Dictionary
           /\ s.at = Len(doc) + 1
           /\ s.info # <<>>
        THEN s
        ELSE Unscannable

(* ---------------------------- a tracker's answer ---------------------------- *)

CONSTANTS
    MaxReplyDepth,       \* MAX_BENCODE_DEPTH
    MaxReplyValues,      \* MAX_BENCODE_VALUES
    MaxReplyEntries,     \* MAX_COLLECTION_ENTRIES
    MaxReplyKey,         \* MAX_DICTIONARY_KEY_BYTES
    MaxReplyDigits,      \* MAX_INTEGER_DIGITS
    MaxReplyLengthDigits,\* 7 in the code
    MaxReplyBytes        \* maxResponseBytes

ReplyStringEnd(doc, i) ==
    LET stop == AfterDigits(doc, i)
        length == Number(doc, i, stop)
    IN  IF /\ stop - i \in 1..MaxReplyLengthDigits
           /\ ByteAt(doc, stop) = Colon
           /\ doc[i] = Zero => stop = i + 1
           /\ length <= MaxReplyBytes
           /\ stop + length <= Len(doc)
        THEN stop + length + 1
        ELSE Rejected

ReplyIntegerEnd(doc, i) ==
    LET digits == IF ByteAt(doc, i + 1) = Minus THEN i + 2 ELSE i + 1
        stop == AfterDigits(doc, digits)
    IN  IF /\ stop - digits \in 1..MaxReplyDigits
           /\ ByteAt(doc, stop) = End
           /\ doc[digits] = Zero => digits = i + 1 /\ stop = digits + 1
           /\ Number(doc, digits, stop) <= MaxSafeInteger
        THEN stop + 1
        ELSE Rejected

RECURSIVE ReplyValue(_, _, _, _), ReplyEntries(_, _, _, _), ReplyItems(_, _, _, _)

\* A dictionary's entries after those read so far: keys and values, in order.
ReplyEntries(doc, s, depth, entries) ==
    IF s.at = Rejected THEN Undecodable
    ELSE IF ByteAt(doc, s.at) = End
    THEN Read(s.at + 1, s.values, MapOf(entries))
    ELSE LET next == ReplyStringEnd(doc, s.at)
             key == Contents(SubSeq(doc, s.at, next - 1))
             value == ReplyValue(doc, next, s.values, depth + 1)
         IN  IF /\ Len(entries) < MaxReplyEntries
                /\ next # Rejected
                /\ Len(key) \in 1..MaxReplyKey
                /\ \A i \in 1..Len(key) : key[i] \in 32..126
                /\ entries # <<>> => Before(Last(entries)[1], key)
             THEN ReplyEntries(doc, value, depth, Append(entries, <<key, value.value>>))
             ELSE Undecodable

ReplyItems(doc, s, depth, items) ==
    IF s.at = Rejected THEN Undecodable
    ELSE IF ByteAt(doc, s.at) = End
    THEN Read(s.at + 1, s.values, ListOf(items))
    ELSE IF Len(items) >= MaxReplyEntries THEN Undecodable
    ELSE LET value == ReplyValue(doc, s.at, s.values, depth + 1)
         IN  ReplyItems(doc, value, depth, Append(items, value.value))

ReplyValue(doc, i, values, depth) ==
    LET token == ByteAt(doc, i)
        leaf(end, value) == IF end = Rejected THEN Undecodable
                                             ELSE Read(end, values + 1, value)
        from == Read(i + 1, values + 1, NumberOf(0))
    IN  IF depth > MaxReplyDepth \/ values >= MaxReplyValues THEN Undecodable
        ELSE CASE token = Dictionary -> ReplyEntries(doc, from, depth, <<>>)
               [] token = List -> ReplyItems(doc, from, depth, <<>>)
               [] token = Integer ->
                    LET end == ReplyIntegerEnd(doc, i)
                    IN  IF end = Rejected THEN Undecodable
                        ELSE leaf(end, NumberOf(Signed(doc, i, end)))
               [] IsDigit(token) ->
                    LET end == ReplyStringEnd(doc, i)
                    IN  IF end = Rejected THEN Undecodable
                        ELSE leaf(end, ByteString(Contents(SubSeq(doc, i, end - 1))))
               [] OTHER -> Undecodable

DecodeReply(doc) ==
    LET s == ReplyValue(doc, 1, 0, 0)
    IN  IF /\ Len(doc) \in 1..MaxReplyBytes
           /\ s.at = Len(doc) + 1
           /\ s.value.type = "map"
        THEN s
        ELSE Undecodable

(* ------------------------------- a datagram --------------------------------- *)

CONSTANTS
    MaxDatagramBytes,    \* maxDatagramBytes
    MaxKrpcDepth,        \* maxDepth
    MaxKrpcValues,       \* maxValues
    MaxKrpcString,       \* maxStringBytes
    MaxKrpcLengthDigits, \* 5 in the code
    MaxKrpcDigits        \* 16 in the code

\* Unlike the other two readers this one takes a length with leading zeros.
KrpcStringEnd(doc, i) ==
    LET stop == AfterDigits(doc, i)
        length == Number(doc, i, stop)
    IN  IF /\ stop - i \in 1..MaxKrpcLengthDigits
           /\ ByteAt(doc, stop) = Colon
           /\ length <= MaxKrpcString
           /\ stop + length <= Len(doc)
        THEN stop + length + 1
        ELSE Rejected

\* And this one takes a negative zero.
KrpcIntegerEnd(doc, i) ==
    LET digits == IF ByteAt(doc, i + 1) = Minus THEN i + 2 ELSE i + 1
        stop == AfterDigits(doc, digits)
    IN  IF /\ stop - digits \in 1..MaxKrpcDigits
           /\ ByteAt(doc, stop) = End
           /\ doc[digits] = Zero => stop = digits + 1
           /\ Number(doc, digits, stop) <= MaxSafeInteger
        THEN stop + 1
        ELSE Rejected

RECURSIVE KrpcValue(_, _, _, _), KrpcEntries(_, _, _, _), KrpcItems(_, _, _, _)

KrpcEntries(doc, s, depth, entries) ==
    IF s.at = Rejected THEN Undecodable
    ELSE IF ByteAt(doc, s.at) = End THEN Read(s.at + 1, s.values, MapOf(entries))
    ELSE LET next == KrpcStringEnd(doc, s.at)
             key == Contents(SubSeq(doc, s.at, next - 1))
             value == KrpcValue(doc, next, s.values, depth + 1)
         IN  IF next = Rejected THEN Undecodable
             ELSE IF entries # <<>> /\ ~Before(Last(entries)[1], key) THEN Undecodable
             ELSE KrpcEntries(doc, value, depth, Append(entries, <<key, value.value>>))

KrpcItems(doc, s, depth, items) ==
    IF s.at = Rejected THEN Undecodable
    ELSE IF ByteAt(doc, s.at) = End THEN Read(s.at + 1, s.values, ListOf(items))
    ELSE LET value == KrpcValue(doc, s.at, s.values, depth + 1)
         IN  KrpcItems(doc, value, depth, Append(items, value.value))

KrpcValue(doc, i, values, depth) ==
    LET token == ByteAt(doc, i)
        from == Read(i + 1, values + 1, NumberOf(0))
    IN  IF depth > MaxKrpcDepth \/ values >= MaxKrpcValues THEN Undecodable
        ELSE CASE token = Dictionary -> KrpcEntries(doc, from, depth, <<>>)
               [] token = List -> KrpcItems(doc, from, depth, <<>>)
               [] token = Integer ->
                    LET end == KrpcIntegerEnd(doc, i)
                    IN  IF end = Rejected THEN Undecodable
                        ELSE Read(end, values + 1, NumberOf(Signed(doc, i, end)))
               [] OTHER ->
                    LET end == KrpcStringEnd(doc, i)
                    IN  IF end = Rejected THEN Undecodable
                        ELSE Read(end, values + 1,
                                  ByteString(Contents(SubSeq(doc, i, end - 1))))

DecodeKrpc(doc) ==
    LET s == KrpcValue(doc, 1, 0, 0)
    IN  IF Len(doc) <= MaxDatagramBytes /\ s.at = Len(doc) + 1 /\ s.value.type = "map"
        THEN s
        ELSE Undecodable

(* ---------------------------------- budgets --------------------------------- *)

\* ENGINE_MESSAGE_BUDGET.
MessageBudget == [bytes |-> 131072, depth |-> 16, nodes |-> 1024]

\* A value that is sent is a leaf of some bytes, a list of so many like values
\* or an object.
Leaf(bytes) == [leaf |-> bytes]
Listed(count, item) == [count |-> count, item |-> item]
Object(entries) == [object |-> entries]

Weight(bytes, nodes, depth) == [bytes |-> bytes, nodes |-> nodes, depth |-> depth]

RECURSIVE Weighed(_)

\* checkPayloadBudget's visit: the keys of an object cost their bytes.
Weighed(value) ==
    IF "leaf" \in DOMAIN value THEN Weight(value.leaf, 1, 0)
    ELSE IF "item" \in DOMAIN value
    THEN LET one == Weighed(value.item)
         IN  Weight(value.count * one.bytes, 1 + value.count * one.nodes, one.depth + 1)
    ELSE FoldSet(LAMBDA key, sum :
             LET one == Weighed(value.object[key])
             IN  Weight(sum.bytes + Len(key) + one.bytes, sum.nodes + one.nodes,
                        Max({sum.depth, one.depth + 1})),
             Weight(0, 1, 0), DOMAIN value.object)

WithinBudget(value, budget) ==
    LET weight == Weighed(value)
    IN  /\ weight.bytes <= budget.bytes
        /\ weight.nodes <= budget.nodes
        /\ weight.depth <= budget.depth

Id == Leaf(36)
Hash == Leaf(40)
Numeral == Leaf(8)
Truth == Leaf(1)

\* A result and a command in their envelopes.
ResultMessage(command, value) ==
    Object([protocolVersion |-> Numeral, generationId |-> Id, sequence |-> Numeral,
            timestampMs |-> Numeral, type |-> Leaf(13), requestId |-> Id,
            payload |-> Object([ok |-> Truth, result |->
                Object([command |-> Leaf(Len(command)), value |-> value])])])

ExecuteMessage(command, payload) ==
    Object([protocolVersion |-> Numeral, generationId |-> Id, sequence |-> Numeral,
            timestampMs |-> Numeral, type |-> Leaf(14), requestId |-> Id,
            payload |-> Object([deadlineMs |-> Numeral, operation |->
                Object([command |-> Leaf(Len(command)), payload |-> payload])])])

SummaryValue(nameBytes) ==
    Object([infoHash |-> Hash, name |-> Leaf(nameBytes), length |-> Numeral,
            fileCount |-> Numeral, selectedFileCount |-> Numeral, private |-> Truth,
            state |-> Leaf(11), progress |-> Numeral, downloaded |-> Numeral,
            uploaded |-> Numeral, downloadSpeed |-> Numeral, uploadSpeed |-> Numeral,
            peerCount |-> Numeral, timeRemainingMs |-> Numeral])

FileValue(pathBytes) ==
    Object([index |-> Numeral, path |-> Leaf(pathBytes), length |-> Numeral,
            selected |-> Truth, downloaded |-> Numeral, progress |-> Numeral])

PageValue(count, item) ==
    Object([items |-> Listed(count, item), nextCursor |-> Numeral, total |-> Numeral])

(* ------------------------------- properties --------------------------------- *)

\* Whether the grammar and the limits allow the document, and the places where
\* an entry of it with the info key has a dictionary for its value.
InfosOf(doc) ==
    LET inner == SubSeq(doc, 2, Len(doc) - 1)
    IN  {<<i, j>> \in (1..Len(doc)) \X (1..Len(doc)) :
            /\ 1 < i /\ i < j /\ doc[i] = Dictionary
            /\ Weights(SubSeq(doc, i, j - 1), MaxScanDepth - 1) # {}
            /\ \E k \in 2..(i - 1) :
                 /\ IsByteString(SubSeq(doc, k, i - 1))
                 /\ Contents(SubSeq(doc, k, i - 1)) = InfoKey
                 /\ EntryWeights(SubSeq(doc, 2, k - 1), MaxScanDepth - 1, {}) # {}}

IsTorrent(doc) ==
    /\ Len(doc) \in 2..MaxTorrentBytes
    /\ doc[1] = Dictionary /\ Last(doc) = End
    /\ \E w \in EntryWeights(SubSeq(doc, 2, Len(doc) - 1), MaxScanDepth - 1, {}) :
           w <= MaxScanValues
    /\ InfosOf(doc) # {}

\* A reply is understood exactly when it is one canonical dictionary within the
\* limits, and what is understood has no other encoding: two trackers that say
\* the same are read the same.
ReplyUnderstood(doc) ==
    \A s \in {DecodeReply(doc)}, weights \in {Weights(doc, MaxReplyDepth)} :
    \A keys \in {{key \in {SubSeq(doc, i, j) : i, j \in 1..Len(doc)} : IsByteString(key)}} :
        /\ s.at # Rejected => Encoding(s.value) = doc
        /\ s.at # Rejected => \E w \in weights : w <= MaxReplyValues /\ s.values = w
        \* What is refused is no dictionary, too deep, too large, or has a key
        \* or a collection the decoder has no room for.
        /\ s.at = Rejected =>
              \/ doc = <<>> \/ Head(doc) # Dictionary \/ Len(doc) > MaxReplyBytes
              \/ \A w \in weights : w > MaxReplyValues
              \/ \E key \in keys : Contents(key) = <<>> \/ Len(Contents(key)) > MaxReplyKey
              \/ \E i \in 1..Len(doc) : doc[i] \notin 32..126

\* A datagram that is read means what its one canonical encoding means: keys are
\* in order and once each, and writing the message down and reading it again
\* gives the same message, so no field can be said twice in two ways.
DatagramMeansOneThing(doc) ==
    \A s \in {DecodeKrpc(doc)} \ {Undecodable} :
        \A again \in {Encoding(s.value)} :
            /\ Weights(again, MaxKrpcDepth) # {}
            /\ DecodeKrpc(again) = [s EXCEPT !.at = Len(again) + 1]

\* Three readers of bencode, one meaning: the scanner of torrent files passes
\* exactly the canonical documents with one info dictionary and names its bytes;
\* a tracker's reply is understood only in its one encoding; and a datagram
\* that is read says what its canonical encoding says.
DocumentsMeanOneThing ==
    subject = "documents" =>
        /\ \A scan \in {ScanTorrent(input)} :
              /\ (scan.at # Rejected) <=> IsTorrent(input)
              /\ scan.at # Rejected => scan.info \in InfosOf(input)
        /\ ReplyUnderstood(input)
        /\ DatagramMeansOneThing(input)

\* The widest answer and the widest command fit the channel.
MessagesFit == subject = "messages" => WithinBudget(input, MessageBudget)

\* Whatever is nested is read as it is meant and sent as it was budgeted.
NestedValuesAreSound == DocumentsMeanOneThing /\ MessagesFit

================================================================================
