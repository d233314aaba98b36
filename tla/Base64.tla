------------------------------- MODULE Base64 -------------------------------
(* The WebSocket library's fbase64.c, which encodes the handshake's key and its  *)
(* digest: f_b64_ntop writes bytes as text into a buffer of a given size,        *)
(* f_b64_pton reads text that may hold spaces, be cut or be altered.             *)
(*                                                                                *)
(* A character is its place in the alphabet, or one of the three below.          *)
EXTENDS Integers, Sequences, SequencesExt

CONSTANTS
    Data,           \* byte sequences to encode
    HandshakeLengths,   \* of the random key and of the SHA-1 digest
    TargetSizes,    \* sizes of the buffers
    Letters         \* characters that get into a text by mistake

Pad64 == 64
Space == 65
Foreign == 66       \* outside the alphabet

VARIABLES
    src,            \* the bytes that are encoded
    text,           \* the characters written
    size,           \* targsize of the call that wrote or read last
    len,            \* what f_b64_ntop returned
    fate,           \* what befell the text: "none", "spaced" or "altered"
    out,            \* what f_b64_pton returned and left in target
    phase           \* "start", "encoded" or "decoded"

vars == <<src, text, size, len, fate, out, phase>>

Error == -1

-----------------------------------------------------------------------------
(* f_b64_ntop: three bytes, zeros for those that are missing, make four          *)
(* characters.                                                                    *)
Quanta(s) == (Len(s) + 2) \div 3

Quantum(s, q) ==
    LET byte(i) == IF 3 * q + i <= Len(s) THEN s[3 * q + i] ELSE 0
    IN  <<byte(1) \div 4, (byte(1) % 4) * 16 + byte(2) \div 16,
          (byte(2) % 16) * 4 + byte(3) \div 64, byte(3) % 64>>

Encoding(s) ==
    [i \in 1 .. 4 * Quanta(s) |->
        LET q    == (i - 1) \div 4
            left == Len(s) - 3 * q
        IN  IF ((i - 1) % 4) > left THEN Pad64 ELSE Quantum(s, q)[((i - 1) % 4) + 1]]

(* The check before every quantum, and the one before the zero is written.       *)
f_b64_ntop(s, targsize) ==
    IF 4 * Quanta(s) > targsize \/ 4 * Quanta(s) >= targsize
    THEN [n |-> Error, target |-> <<>>]
    ELSE [n |-> 4 * Quanta(s), target |-> Encoding(s)]

-----------------------------------------------------------------------------
(* f_b64_pton: r.state as in the code, r.at the tarindex, r.top one more than    *)
(* the last index written, r.mode the part of the code the next character meets. *)
Started == [mode |-> "chars", state |-> 0, at |-> 0, target |-> <<>>, top |-> 0]

Store(r, i, byte) ==
    [r EXCEPT !.target = (i :> byte) @@ @, !.top = IF i < @ THEN @ ELSE i + 1]

(* The switch on state: a digit fills what is left of one byte and starts the    *)
(* next, if there is room for both.                                               *)
Digit(r, pos, targsize) ==
    LET old  == r.target[r.at]
        room == r.at + (IF r.state \in {1, 2} THEN 1 ELSE 0) < targsize
    IN  CASE ~room -> [r EXCEPT !.mode = "error"]
          [] room /\ r.state = 0 -> [Store(r, r.at, pos * 4) EXCEPT !.state = 1]
          [] room /\ r.state = 1 ->
               [Store(Store(r, r.at, old + pos \div 16), r.at + 1, (pos % 16) * 16)
                    EXCEPT !.at = @ + 1, !.state = 2]
          [] room /\ r.state = 2 ->
               [Store(Store(r, r.at, old + pos \div 4), r.at + 1, (pos % 4) * 64)
                    EXCEPT !.at = @ + 1, !.state = 3]
          [] room /\ r.state = 3 ->
               [Store(r, r.at, old + pos) EXCEPT !.at = @ + 1, !.state = 0]

(* A pad after two digits needs another behind it, after three none.             *)
Padded(r) == [r EXCEPT !.mode = CASE r.state = 2 -> "second" [] r.state = 3 -> "tail"
                                  [] OTHER -> "error"]

Character(r, ch, targsize) ==
    CASE r.mode = "error" \/ ch = Space -> r
      [] r.mode = "chars" /\ ch = Pad64 -> Padded(r)
      [] r.mode = "chars" /\ ch = Foreign -> [r EXCEPT !.mode = "error"]
      [] r.mode = "chars" /\ ch < Pad64 -> Digit(r, ch, targsize)
      [] r.mode = "second" /\ ch # Space ->
            [r EXCEPT !.mode = IF ch = Pad64 THEN "tail" ELSE "error"]
      [] r.mode = "tail" /\ ch # Space -> [r EXCEPT !.mode = "error"]

(* No partial byte, no missing pad, no bits behind the last whole byte.          *)
Finished(r) ==
    \/ r.mode = "chars" /\ r.state = 0
    \/ r.mode = "tail" /\ r.target[r.at] = 0

f_b64_pton(t, targsize) ==
    LET r == FoldLeft(LAMBDA acc, ch : Character(acc, ch, targsize), Started, t)
    IN  [n |-> IF Finished(r) THEN r.at ELSE Error, target |-> r.target, top |-> r.top]

NoOutput == [n |-> Error, target |-> <<>>, top |-> 0]

-----------------------------------------------------------------------------
Init ==
    /\ src \in Data /\ text = <<>> /\ size = 0 /\ len = Error
    /\ fate = "none" /\ out = NoOutput /\ phase = "start"

Encode(targsize) ==
    /\ phase = "start"
    /\ \E r \in {f_b64_ntop(src, targsize)} : len' = r.n /\ text' = r.target
    /\ size' = targsize /\ phase' = "encoded"
    /\ UNCHANGED <<src, fate, out>>

(* The buffer both callers allocate.                                             *)
buffer_size(n) == (n * 3 + 2) \div 2

EncodeForHandshake ==
    /\ Len(src) \in HandshakeLengths
    /\ Encode(buffer_size(Len(src)))

InsertSpace(i) ==
    /\ phase = "encoded" /\ len # Error /\ fate = "none"
    /\ text' = InsertAt(text, i, Space) /\ fate' = "spaced"
    /\ UNCHANGED <<src, size, len, out, phase>>

Replace(i, ch) ==
    /\ phase = "encoded" /\ len # Error /\ fate = "none" /\ text[i] # ch
    /\ text' = [text EXCEPT ![i] = ch] /\ fate' = "altered"
    /\ UNCHANGED <<src, size, len, out, phase>>

AppendChar(ch) ==
    /\ phase = "encoded" /\ len # Error /\ fate = "none"
    /\ text' = Append(text, ch) /\ fate' = "altered"
    /\ UNCHANGED <<src, size, len, out, phase>>

Cut(n) ==
    /\ phase = "encoded" /\ len # Error /\ fate = "none"
    /\ text' = SubSeq(text, 1, n) /\ fate' = "altered"
    /\ UNCHANGED <<src, size, len, out, phase>>

Decode(targsize) ==
    /\ phase = "encoded" /\ len # Error
    /\ out' = f_b64_pton(text, targsize)
    /\ size' = targsize /\ phase' = "decoded"
    /\ UNCHANGED <<src, text, len, fate>>

Next ==
    \/ \E n \in TargetSizes : Encode(n) \/ Decode(n)
    \/ EncodeForHandshake
    \/ \E i \in 1 .. Len(text) + 1 : InsertSpace(i)
    \/ \E i \in DOMAIN text, ch \in Letters : Replace(i, ch)
    \/ \E ch \in Letters : AppendChar(ch)
    \/ \E n \in 0 .. Len(text) - 1 : Cut(n)

Spec == Init /\ [][Next]_vars

-----------------------------------------------------------------------------
Result == [i \in 1 .. out.n |-> out.target[i - 1]]

(* The one type invariant of the module: the sums of shifted parts stay bytes.   *)
TypeOK ==
    /\ phase \in {"start", "encoded", "decoded"} /\ fate \in {"none", "spaced", "altered"}
    /\ ToSet(text) \subseteq 0 .. 66
    /\ \A i \in DOMAIN out.target : out.target[i] \in 0 .. 255

(* Neither function writes past its buffer, the terminating zero included.       *)
StaysInTarget ==
    /\ phase = "encoded" /\ len # Error => len + 1 <= size
    /\ phase = "decoded" => out.top <= size

(* What was encoded is decoded to the same bytes, with spaces anywhere, whenever *)
(* the buffer has a byte more than the data or the text has no padding.          *)
DecodesBack ==
    (/\ phase = "decoded" /\ fate # "altered"
     /\ size > Len(src) \/ (size = Len(src) /\ Len(src) % 3 = 0))
        => out.n = Len(src) /\ Result = src

(* The callers' buffer, too small for most short data, is enough for what the    *)
(* handshake sends and compares: it never goes out without its key.              *)
HandshakeIsEncoded ==
    (/\ phase = "encoded"
     /\ Len(src) \in HandshakeLengths /\ size = buffer_size(Len(src))) => len # Error

(* There is one text for any bytes: whatever happened to the characters, what is *)
(* accepted is, spaces aside, the encoding of what is returned. Bits that no     *)
(* byte shows cannot differ.                                                      *)
AcceptedIsCanonical ==
    phase = "decoded" /\ out.n # Error =>
        SelectSeq(text, LAMBDA ch : ch # Space) = Encoding(Result)
=============================================================================
