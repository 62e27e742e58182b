--------------------------------- MODULE Utf ---------------------------------
(***************************************************************************)
(* The transcoders of support-lib/jni/djinni_support.cpp: std::string is   *)
(* UTF-8, a Java string is UTF-16, std::wstring is UTF-32.  A string is a  *)
(* sequence of numbers; a decoder answers the code point at a position and *)
(* how many units it takes.                                                *)
(***************************************************************************)
EXTENDS Naturals, Sequences, FiniteSets

Invalid == [offset |-> 1, pt |-> 65533]    \* U+FFFD, and go on with the next unit
Point(n, pt) == [offset |-> n, pt |-> pt]

IsHighSurrogate(u) == 55296 <= u /\ u < 56320
IsLowSurrogate(u) == 56320 <= u /\ u < 57344
IsSurrogate(u) == IsHighSurrogate(u) \/ IsLowSurrogate(u)

\* A std::string can be read one past its end, where there is a zero.
At(s, i) == IF i <= Len(s) THEN s[i] ELSE 0

\* The bits of n bytes from position i on, when all but the first continue the first.
Continues(s, i, n) == \A k \in 1..n - 1 : At(s, i + k) \div 64 = 2

Payload(s, i, n) ==
    IF n = 2 THEN (s[i] % 32) * 64 + (At(s, i + 1) % 64)
    ELSE IF n = 3 THEN (s[i] % 16) * 4096 + (At(s, i + 1) % 64) * 64 + (At(s, i + 2) % 64)
    ELSE (s[i] % 8) * 262144 + (At(s, i + 1) % 64) * 4096
         + (At(s, i + 2) % 64) * 64 + (At(s, i + 3) % 64)

\* Faulty variant: overlong forms are taken for what they spell.
Utf8Decode_Overlong(s, i) ==
    LET b0 == s[i]
        Multi(n, least) ==
            IF Continues(s, i, n) THEN Point(n, Payload(s, i, n)) ELSE Invalid
    IN  IF b0 < 128 THEN Point(1, b0)
        ELSE IF b0 < 192 THEN Invalid
        ELSE IF b0 < 224 THEN Multi(2, 128)
        ELSE IF b0 < 240 THEN Multi(3, 2048)
        ELSE IF b0 < 248 THEN Multi(4, 65536)
        ELSE Invalid

\* utf8_decode(): overlong forms and what lies beyond U+10FFFF are invalid; surrogates pass.
Utf8Decode(s, i) ==
    LET b0 == s[i]
        Multi(n, least) ==
            LET pt == Payload(s, i, n) IN
            IF Continues(s, i, n) /\ least <= pt /\ pt < 1114112
            THEN Point(n, pt) ELSE Invalid
    IN  IF b0 < 128 THEN Point(1, b0)
        ELSE IF b0 < 192 THEN Invalid
        ELSE IF b0 < 224 THEN Multi(2, 128)
        ELSE IF b0 < 240 THEN Multi(3, 2048)
        ELSE IF b0 < 248 THEN Multi(4, 65536)
        ELSE Invalid

\* utf16_decode(), where the unit after the last one is beyond.
Utf16Decode(s, i, beyond) ==
    LET next == IF i < Len(s) THEN s[i + 1] ELSE beyond IN
    IF IsHighSurrogate(s[i]) /\ IsLowSurrogate(next)
    THEN Point(2, (s[i] - 55296) * 1024 + (next - 56320) + 65536)
    ELSE IF IsSurrogate(s[i]) THEN Invalid ELSE Point(1, s[i])

Utf8Encode(pt) ==
    IF pt < 128 THEN <<pt>>
    ELSE IF pt < 2048 THEN <<192 + pt \div 64, 128 + (pt % 64)>>
    ELSE IF pt < 65536
    THEN <<224 + pt \div 4096, 128 + ((pt \div 64) % 64), 128 + (pt % 64)>>
    ELSE IF pt < 1114112
    THEN <<240 + pt \div 262144, 128 + ((pt \div 4096) % 64), 128 + ((pt \div 64) % 64),
           128 + (pt % 64)>>
    ELSE <<239, 191, 189>>

\* Faulty variant: the offset of the supplementary planes is not taken off.
Utf16Encode_NoOffset(pt) ==
    IF pt < 65536 THEN <<pt>>
    ELSE IF pt < 1114112 THEN <<55296 + pt \div 1024, 56320 + (pt % 1024)>>
    ELSE <<65533>>

Utf16Encode(pt) ==
    IF pt < 65536 THEN <<pt>>
    ELSE IF pt < 1114112 THEN <<55296 + (pt - 65536) \div 1024, 56320 + (pt % 1024)>>
    ELSE <<65533>>

\* The loops.  A decoder never steps over the end: where it does, this is not defined.
Transcoded(s, Decode(_), Encode(_)) ==
    LET from[i \in 1..Len(s) + 1] ==
            IF i = Len(s) + 1 THEN <<>>
            ELSE Encode(Decode(i).pt) \o from[i + Decode(i).offset]
    IN  from[1]

\* jniStringFromUTF8() and jniUTF8FromString().
FromUtf8(s) == Transcoded(s, LAMBDA i : Utf8Decode(s, i), Utf16Encode)
ToUtf8(u) == Transcoded(u, LAMBDA i : Utf16Decode(u, i, 0), Utf8Encode)

\* jniStringFromWString() and jniWStringFromString() where wchar_t has four bytes; the latter
\* reads the characters of the VM, after which there is anything.
FromWide(w) == Transcoded(w, LAMBDA i : Point(1, w[i]), Utf16Encode)
ToWide(u, beyond) ==
    LET last == Len(u)
        step(i) == Utf16Decode(u, i, beyond)
        from[i \in 1..last + 2] ==
            IF i > last THEN <<>> ELSE <<step(i).pt>> \o from[i + step(i).offset]
    IN  from[1]

-----------------------------------------------------------------------------
(* Strings to convert, one unit at a time. *)

CONSTANTS
    Bytes,       \* of a std::string
    Units,       \* of a Java string
    MaxText      \* bound: how long it gets

ASSUME TextAssumption ==
    /\ \A b \in Bytes : b \in Nat /\ b < 256
    /\ \A u \in Units : u \in Nat /\ u < 65536

VARIABLES
    coding,      \* what it is
    text         \* the string itself

textVars == <<coding, text>>

TextInit == coding \in {"utf8", "utf16"} /\ text = <<>>

TextNext ==
    /\ Len(text) < MaxText
    /\ \E u \in IF coding = "utf8" THEN Bytes ELSE Units : text' = Append(text, u)
    /\ UNCHANGED coding

TextSpec == TextInit /\ [][TextNext]_textVars

-----------------------------------------------------------------------------
(* What the conversions are compared with: an encoding is well formed if   *)
(* every character of it is one of Unicode's table, surrogates in pairs.    *)

\* Unicode's table of well-formed byte sequences (The Unicode Standard, table 3-7).
Between(s, ranges) == Len(s) = Len(ranges) /\ \A i \in DOMAIN s : s[i] \in ranges[i]
Next6 == 128..191
WellFormedChar(s) ==
    \/ Between(s, <<0..127>>)
    \/ Between(s, <<194..223, Next6>>)
    \/ Between(s, <<{224}, 160..191, Next6>>)
    \/ Between(s, <<225..236 \cup 238..239, Next6, Next6>>)
    \/ Between(s, <<{237}, 128..159, Next6>>)
    \/ Between(s, <<{240}, 144..191, Next6, Next6>>)
    \/ Between(s, <<241..243, Next6, Next6, Next6>>)
    \/ Between(s, <<{244}, 128..143, Next6, Next6>>)

\* The bytes are characters of the table, one after the other: Starts is where they start.
WellFormed8(s) ==
    \E Starts \in SUBSET (1..Len(s) + 1) :
        /\ 1 \in Starts
        /\ \A i \in Starts :
            i <= Len(s) =>
                \E n \in 1..4 : i + n \in Starts /\ WellFormedChar(SubSeq(s, i, i + n - 1))

WellFormed16(u) ==
    \A i \in DOMAIN u :
        /\ IsHighSurrogate(u[i]) => i < Len(u) /\ IsLowSurrogate(u[i + 1])
        /\ IsLowSurrogate(u[i]) => i > 1 /\ IsHighSurrogate(u[i - 1])

\* Some surrogate is spelled out in UTF-8, which table 3-7 does not allow.
SpellsSurrogate(s) ==
    \E i \in 1..Len(s) - 2 : s[i] = 237 /\ s[i + 1] \in 160..191 /\ s[i + 2] \in Next6

\* What arrives is well formed.  Java strings may hold surrogates that stand alone: C++ gets
\* U+FFFD for them.  C++ strings may hold any bytes: Java gets a U+FFFD wherever they are not
\* well formed, unless they spell a surrogate, which the decoder lets through
\* (djinni_support.cpp:369-389, 483-485, 502-521).
ArrivesWellFormed ==
    CASE coding = "utf16" -> WellFormed8(ToUtf8(text))
      [] coding = "utf8" ->
            LET java == FromUtf8(text) IN
            \/ SpellsSurrogate(text)
            \/ /\ WellFormed16(java)
               /\ ~ WellFormed8(text) => \E i \in DOMAIN java : java[i] = 65533

\* A text survives the trip to the other side and back, from either side and also by way of
\* std::wstring, where the decoder looks at the unit after a high surrogate in a buffer that
\* has no terminator: whatever lies there (djinni_support.cpp:479, 579-580).
TextSurvives ==
    CASE coding = "utf8" -> WellFormed8(text) => ToUtf8(FromUtf8(text)) = text
      [] coding = "utf16" ->
            WellFormed16(text) =>
                /\ FromUtf8(ToUtf8(text)) = text
                /\ \A beyond \in Units : FromWide(ToWide(text, beyond)) = text
=============================================================================
