-------------------------------- MODULE Url --------------------------------
(***************************************************************************)
(* std/lcodec.c: urlencode, urldecode and urlsplit.  A string is a         *)
(* sequence of bytes; in C it ends at its first NUL.                       *)
(***************************************************************************)
EXTENDS Bytes, TLC

LOCAL INSTANCE SequencesExt

CONSTANTS Chunk     \* urlencode empties chbuf when it holds so many bytes (32)

ASSUME ChunkAssumption == Chunk \in Nat

HASH == 35    DOLLAR == 36   PERCENT == 37  AMP == 38    PLUS == 43
COMMA == 44   SLASH == 47    ZERO == 48     COLON == 58  SEMI == 59
EQUAL == 61   QUEST == 63    AT == 64       SPACE == 32

digit == 48..57
xdigit == digit \union 65..70 \union 97..102
reserved == {SEMI, SLASH, QUEST, COLON, AT, AMP, EQUAL, PLUS, DOLLAR, COMMA}

\* The bytes of a C string.
c_string(s) ==
    IF Contains(s, NUL) THEN Take(s, CHOOSE i \in 0..Len(s) :
                                 s[i + 1] = NUL /\ \A j \in 1..i : s[j] # NUL)
    ELSE s

-----------------------------------------------------------------------------
\* code_table: the bytes that are escaped, '%' not being one of them.
escaped(ch) == ch \in reserved \/ ch >= 128

xchar(n) == IF n < 10 THEN ZERO + n ELSE 87 + n

xvalue(c) == IF c \in digit THEN c - ZERO ELSE IF c < 97 THEN c - 55 ELSE c - 87

piece(ch) ==
    IF escaped(ch) THEN <<PERCENT, xchar(ch \div 16), xchar(ch % 16)>>
    ELSE IF ch = SPACE THEN <<PLUS>> ELSE <<ch>>

\* One byte is encoded into chbuf, which is emptied into the buffer before.
encode_byte_unpushed(st, ch) ==
    IF Len(st.chbuf) >= Chunk THEN [st EXCEPT !.chbuf = piece(ch)]
    ELSE [st EXCEPT !.chbuf = @ \o piece(ch)]

encode_byte(st, ch) ==
    LET flushed == IF Len(st.chbuf) >= Chunk
                   THEN [out |-> st.out \o st.chbuf, chbuf |-> <<>>] ELSE st
    IN [flushed EXCEPT !.chbuf = @ \o piece(ch)]

urlencode(src) ==
    LET end == FoldLeft(encode_byte, [out |-> <<>>, chbuf |-> <<>>], c_string(src))
    IN end.out \o end.chbuf

\* What is decoded of the front of src, and how many bytes of src it was.
urldecode_step(src) ==
    IF Len(src) >= 3 /\ src[1] = PERCENT /\ src[2] \in xdigit /\ src[3] \in xdigit
    THEN <<xvalue(src[2]) * 16 + xvalue(src[3]), 3>>
    ELSE <<IF src[1] = PLUS THEN SPACE ELSE src[1], 1>>

\* The decoded string is written over the source, and so ends at a NUL.
urldecode(string) ==
    LET s == c_string(string)
        from[i \in 1..(Len(s) + 1)] ==
            IF i > Len(s) THEN <<>>
            ELSE LET step == urldecode_step(Drop(s, i - 1))
                 IN <<step[1]>> \o from[i + step[2]]
    IN c_string(from[1])

-----------------------------------------------------------------------------
\* urlsplit.  strchr: where ch is in s, or 0.
strchr(s, ch) ==
    IF Contains(s, ch) THEN CHOOSE i \in DOMAIN s :
                                s[i] = ch /\ \A j \in 1..(i - 1) : s[j] # ch
    ELSE 0

before(s, i) == Take(s, i - 1)
after(s, i) == Drop(s, i)

isdigitstr(s) == s # <<>> /\ \A i \in DOMAIN s : s[i] \in digit

atoi(s) == FoldLeft(LAMBDA n, c : n * 10 + c - ZERO, 0, s)

\* The path starts with a slash; a '?' is looked for first, wherever it is.
split_path(s) ==
    LET q == strchr(s, QUEST)
        rest == after(s, q)
        f == strchr(rest, HASH)
    IN IF s = <<>> THEN "path" :> <<SLASH>>
       ELSE ("path" :> (IF q # 0 THEN before(s, q) ELSE IF f # 0 THEN before(s, f) ELSE s))
            @@ (IF q # 0 THEN "query" :> (IF f # 0 THEN before(rest, f) ELSE rest) ELSE <<>>)
            @@ (IF f # 0 THEN "fragment" :> after(rest, f) ELSE <<>>)

\* The scheme is what stands before the first "://", wherever that is.
split_scheme(s) ==
    LET at == {i \in 1..(Len(s) - 2) : SubSeq(s, i, i + 2) = <<COLON, SLASH, SLASH>>}
        i == CHOOSE i \in at : \A j \in at : i <= j
    IN IF at = {} THEN [parts |-> <<>>, rest |-> s]
       ELSE [parts |-> "scheme" :> before(s, i), rest |-> after(s, i + 2)]

split_user(s) ==
    LET at == strchr(s, AT)
        user == before(s, at)
        colon == strchr(user, COLON)
    IN IF at = 0 THEN [parts |-> <<>>, rest |-> s]
       ELSE [parts |-> IF colon = 0 THEN "user" :> user
                       ELSE ("user" :> before(user, colon)) @@ ("password" :> after(user, colon)),
             rest |-> after(s, at)]

\* No url at all if what follows the host's colon is not a number.
Nothing == <<>>

split_host(s) ==
    LET colon == strchr(s, COLON)
    IN IF colon = 0 THEN "host" :> urldecode(s)
       ELSE IF ~isdigitstr(after(s, colon)) THEN Nothing
       ELSE ("host" :> urldecode(before(s, colon))) @@ ("port" :> atoi(after(s, colon)))

urlsplit(string) ==
    LET str == c_string(string)
        s == split_scheme(str)
        slash == strchr(s.rest, SLASH)
        u == split_user(IF slash = 0 THEN s.rest ELSE before(s.rest, slash))
        h == split_host(u.rest)
    IN IF str = <<>> \/ str[1] = SLASH THEN split_path(str)
       ELSE IF h = Nothing THEN Nothing
       ELSE s.parts @@ u.parts @@ h @@ split_path(IF slash = 0 THEN <<>> ELSE Drop(s.rest, slash - 1))
=============================================================================
