------------------------------- MODULE Codec -------------------------------
(***************************************************************************)
(* A Lua program that calls the functions on strings and numbers of        *)
(* std/lcodec.c, std/lbitlib.c, std/lmath.c, std/lmd5.c, std/lstring.c and *)
(* contrib/cjson, one after the other.  Most keep nothing from call to     *)
(* call; strtok's position, the configuration of cjson and its buffer      *)
(* stay, and a digest takes many steps.                                    *)
(***************************************************************************)
EXTENDS Url, Bits, Md5, Text, Json

LOCAL INSTANCE FiniteSetsExt

LOCAL INSTANCE SequencesExt

CONSTANTS
    EncStr,     \* the strings that are encoded, decoded and escaped
    UrlParts,   \* the urls that are split, as their parts
    Numbers,    \* the integers that the bit functions take
    Shifts,     \* the distances they are shifted by
    Messages,   \* the messages that are digested
    JsonValues, \* the values that are encoded
    JsonTexts,  \* the texts that are decoded
    Behind,     \* what memory may hold behind the data of a buffer
    Configs     \* the calls that configure cjson, with their arguments

VARIABLES call, result

codecvars == <<call, result, save, loop, md, json_cfg, encode_buf>>

None == [f |-> "none"]

Idle == call = None /\ Open = {} /\ ~Hashing

\* Bound: the calls that share no state are not tried in each other's
\* states: a string is only taken apart before cjson is used, and the other
\* way round.
NoLoopYet == save = NoSave /\ loop = [l \in Loop |-> Closed]
CjsonUnused == json_cfg = DefaultCfg /\ encode_buf = DefaultSize

Calls(c, r) == call' = c /\ result' = r /\ UNCHANGED textvars

Pure(c, r) == Calls(c, r) /\ UNCHANGED <<md, jsonvars>>

CodecInit ==
    /\ call = None /\ result = <<>>
    /\ TextInit /\ JsonInit /\ md = Md5Idle

\* The caller has used the result.
Return ==
    /\ call # None /\ ~Hashing
    /\ call' = None /\ result' = <<>>
    /\ UNCHANGED <<textvars, md, jsonvars>>

\* The url with these parts.
join(p) ==
    LET part(k, s, front, back) == IF k \in DOMAIN p THEN front \o s \o back ELSE <<>>
        text(k) == IF k \in DOMAIN p THEN p[k] ELSE <<>>
    IN part("scheme", text("scheme"), <<>>, <<COLON, SLASH, SLASH>>)
       \o text("user") \o part("password", text("password"), <<COLON>>, <<>>)
       \o part("user", <<>>, <<>>, <<AT>>)
       \o urlencode(text("host"))
       \o (IF "port" \in DOMAIN p THEN <<COLON>> \o decimal(p.port) ELSE <<>>)
       \o text("path") \o part("query", text("query"), <<QUEST>>, <<>>)
       \o part("fragment", text("fragment"), <<HASH>>, <<>>)

UrlNext ==
    \/ \E s \in EncStr : Pure([f |-> "urlencode", s |-> s], urlencode(s))
    \/ \E s \in EncStr : Pure([f |-> "urldecode", s |-> s], urldecode(s))
    \/ \E p \in UrlParts : Pure([f |-> "urlsplit", parts |-> p], urlsplit(join(p)))

BitNext ==
    \/ \E v \in Numbers, w \in Numbers :
           Pure([f |-> "logic", v |-> v, w |-> w],
                [and |-> b_and(<<v, w>>), or |-> b_or(<<v, w>>), xor |-> b_xor(<<v, w>>),
                 test |-> b_test(<<v, w>>), not |-> b_not(v)])
    \/ \E v \in Numbers, i \in Shifts :
           Pure([f |-> "shift", v |-> v, i |-> i],
                [l |-> b_lshift(v, i), r |-> b_rshift(v, i), ar |-> b_arshift(v, i),
                 lrot |-> b_lrot(v, i), rrot |-> b_rrot(v, i)])
    \/ \E v \in Numbers, u \in Numbers, f \in Shifts, w \in Shifts :
           /\ fieldargs(f, w)
           /\ Pure([f |-> "field", v |-> v, u |-> u, at |-> f, w |-> w],
                   [extract |-> b_extract(v, f, w), replace |-> b_replace(v, u, f, w)])
    \/ \E v \in Numbers, a \in Shifts, b \in Shifts :
           /\ a >= 0 /\ b >= 0
           /\ Pure([f |-> "bitfields", v |-> v, widths |-> <<a, b>>], lmath_bitfields(v, <<a, b>>))
    \/ \E v \in Numbers : v >= 0 /\ Pure([f |-> "oct", v |-> v], lmath_oct(v))

Md5Next ==
    \/ Idle /\ \E m \in DOMAIN Messages : Calls([f |-> "md5", m |-> m], <<>>) /\ md5_call(m) /\ UNCHANGED jsonvars
    \/ (md5_block \/ md5_round) /\ UNCHANGED <<call, result, textvars, jsonvars>>
    \/ /\ Digested /\ md' = Md5Idle /\ result' = md5_text
       /\ UNCHANGED <<call, textvars, jsonvars>>

\* Bound: in the body of a loop few strings are taken apart.
Taken == IF Open = {} THEN TokStr ELSE Remains

TextNext ==
    \/ Idle /\ NoLoopYet /\ \E s \in EncStr : Pure([f |-> "addslashes", s |-> s], addslashes(s))
    \/ /\ call = None /\ ~Hashing
       /\ \E s \in Taken : call' = [f |-> "tokenize", s |-> s] /\ result' = tokenize(s)
       /\ lstring_tokenize /\ UNCHANGED <<md, jsonvars>>
    \/ /\ \/ \E l \in Loop, s \in Taken : lstring_eachtok(l, s)
          \/ \E l \in Loop : l_eachtok_next(l) \/ leave_loop(l)
       /\ call = None /\ ~Hashing
       /\ UNCHANGED <<call, result, md, jsonvars>>

JsonNext ==
    \/ \E v \in JsonValues :
           /\ Calls([f |-> "encode", v |-> v], encoding(v))
           /\ json_encode(v) /\ UNCHANGED md
    \/ \E t \in JsonTexts : Pure([f |-> "decode", t |-> t], json_decode(t))
    \/ \E t \in JsonTexts, b \in Behind :
           Pure([f |-> "decodeb", t |-> t, behind |-> b], json_decodeb(t, b))
    \/ \E c \in Configs :
           /\ json_cfg = DefaultCfg     \* bound: one call that configures
           /\ \/ c.f = "sparse" /\ json_cfg_encode_sparse_array(c.convert, c.ratio, c.safe)
              \/ c.f = "depth" /\ json_cfg_encode_max_depth(c.depth)
              \/ c.f = "precision" /\ json_cfg_encode_number_precision(c.precision)
              \/ c.f = "keep" /\ json_cfg_encode_keep_buffer(c.keep)
              \/ c.f = "refuse" /\ json_cfg_refuse_invalid_numbers(c.enc, c.dec)
           /\ Calls(c, <<>>) /\ UNCHANGED md

CodecNext ==
    \/ Return
    \/ Idle /\ NoLoopYet /\ JsonNext
    \/ Idle /\ NoLoopYet /\ CjsonUnused /\ (UrlNext \/ BitNext)
    \/ CjsonUnused /\ NoLoopYet /\ Md5Next
    \/ CjsonUnused /\ TextNext

CodecSpec == CodecInit /\ [][CodecNext]_codecvars

-----------------------------------------------------------------------------
Returned(f) == call.f = f /\ ~Hashing

\* The reference for the tokens of a string: its longest runs without a
\* separator, from left to right.
Tokens(s) ==
    LET runs == {r \in (DOMAIN s) \X (DOMAIN s) :
                    /\ r[1] <= r[2]
                    /\ \A i \in r[1]..r[2] : s[i] \notin Delim
                    /\ r[1] = 1 \/ s[r[1] - 1] \in Delim
                    /\ r[2] = Len(s) \/ s[r[2] + 1] \in Delim}
        sorted == SetToSortSeq(runs, LAMBDA a, b : a[1] < b[1])
    IN [i \in DOMAIN sorted |-> SubSeq(s, sorted[i][1], sorted[i][2])]

\* What a string becomes without its slashes.
Unslashed(s) ==
    LET from[i \in 1..(Len(s) + 1)] ==
            IF i > Len(s) THEN <<>>
            ELSE IF s[i] # 92 THEN <<s[i]>> \o from[i + 1]
            ELSE <<CASE s[i + 1] = 48 -> NUL [] s[i + 1] = 114 -> CR [] s[i + 1] = 110 -> LF
                     [] OTHER -> s[i + 1]>> \o from[i + 2]
    IN from[1]

\* Decoding an encoded string gives it back, unless it held an escape before
\* (urlencode leaves '%' alone); chbuf, four bytes longer than the mark at
\* which it is emptied, never overflows; and the parts of a url are found
\* again.  (lcodec.c: urlencode, urldecode, urlsplit)
UrlRight ==
    /\ Returned("urlencode") =>
          /\ ~Contains(call.s, PERCENT) => urldecode(result) = c_string(call.s)
          /\ \A i \in DOMAIN result : result[i] < 128 /\ result[i] \notin (reserved \ {PLUS})
          /\ \A n \in 0..Len(call.s) :
                Len(FoldLeft(encode_byte, [out |-> <<>>, chbuf |-> <<>>], Take(call.s, n)).chbuf)
                    <= Chunk + 4
    /\ Returned("urlsplit") => result = call.parts

Two(n) == 2 ^ n
Modulus == Two(NBITS)

\* The bit functions are what arithmetic says of numbers of NBITS bits,
\* whatever bits above those the arguments have.  Two are not, and then the
\* argument is said: arshift takes the sign from bit 63, not from bit 31, and
\* extract and replace keep what a number has above bit 31.  The fields that
\* bitfields returns make up the number again.
\* (lbitlib.c: every function; lmath.c: bitfields, oct)
BitsRight ==
    /\ Returned("logic") =>
          LET x == call.v % Modulus
              y == call.w % Modulus
          IN /\ result.and + result.or = x + y
             /\ result.xor = result.or - result.and
             /\ b_uint(result.and) \subseteq b_uint(x) \intersect b_uint(y)
             /\ \A b \in ALLONES : (x \div Two(b)) % 2 = 1 /\ (y \div Two(b)) % 2 = 1
                    => (result.and \div Two(b)) % 2 = 1
             /\ result.test = (result.and # 0)
             /\ result.not = Modulus - 1 - x
    /\ Returned("shift") =>
          LET x == call.v % Modulus
              i == call.i
              by(n) == IF n >= 0 THEN (x * Two(n)) % Modulus ELSE x \div Two(-n)
              turned(n) == LET k == n % NBITS IN ((x * Two(k)) % Modulus) + (x \div Two(NBITS - k))
          IN /\ result.l = by(i) /\ result.r = by(-i)
             /\ result.lrot = turned(i) % Modulus /\ result.rrot = turned(-i) % Modulus
             /\ x < Modulus \div 2 \/ i < 0 => result.ar = by(-i)
             /\ call.v < 0 /\ call.v >= -(Modulus \div 2) /\ i >= 0
                    => result.ar = (call.v \div Two(i)) % Modulus
    /\ Returned("field") /\ call.v \in 0..(Modulus - 1) =>
          LET old == (call.v \div Two(call.at)) % Two(call.w)
          IN /\ result.extract = old
             /\ call.u \in 0..(Modulus - 1) =>
                   result.replace = call.v + ((call.u % Two(call.w)) - old) * Two(call.at)
    /\ Returned("bitfields") =>
          LET width(i) == IF i \in DOMAIN call.widths THEN call.widths[i] ELSE NBITS
              from[i \in 1..(Len(result) + 1)] == IF i = 1 THEN 0 ELSE from[i - 1] + width(i - 1)
          IN /\ MapThenSumSet(LAMBDA i : result[i] * Two(from[i]), DOMAIN result) = call.v % Modulus
             /\ \A i \in DOMAIN result : result[i] < Two(width(i))
             /\ from[Len(result) + 1] >= NBITS
    /\ Returned("oct") /\ result # 0 =>
          /\ result < call.v \/ call.v < 8
          /\ result % 8 = call.v % 10

\* The digests of RFC 1321's test suite and of messages that end around the
\* end of a block.  (lmd5.c: md5, converte, digest)
DigestRight == Returned("md5") => result = Messages[call.m]

\* Whatever other loops and tokenize have done before, and whatever loops are
\* left early or open, a loop gets the tokens of its own string, from the
\* first on, and all of them if it runs to its end: unless another loop, or a
\* tokenize in its own body, calls strtok between two of its tokens, which
\* spoils it (README, differences).  tokenize is right inside of loops, too;
\* and what addslashes adds can be taken away again.
\* (lstring.c: eachtok and tokenize over strtok's position; addslashes)
LoopsRight ==
    /\ \A l \in Loop : loop[l].own =>
          /\ IsPrefix(loop[l].got, Tokens(loop[l].src))
          /\ ~loop[l].open => loop[l].got = Tokens(loop[l].src)
    /\ Returned("tokenize") => result = Tokens(call.s)
    /\ Returned("addslashes") => Unslashed(result) = call.s

\* What is taken apart or made harmless comes back as it was: the parts of
\* a url, the tokens of a string in loops that share strtok's one position and
\* may run inside each other, until that spoils one, and what stood before
\* the escapes and slashes.  (lcodec.c, lstring.c)
StringsRight == UrlRight /\ LoopsRight

\* Whatever the widths, the signs and the padding: the bit functions are
\* what arithmetic says, and the digests are those of RFC 1321.
\* (lbitlib.c, lmath.c, lmd5.c)
NumbersRight == BitsRight /\ DigestRight

RECURSIVE Kept(_)
\* The values JSON can hold: no holes in an array, only strings as other keys,
\* and no more digits than are printed.
Kept(v) ==
    CASE v[1] = "number" -> LET a == IF v[2] < 0 THEN -v[2] ELSE v[2]
                            IN Len(decimal(a)) <= json_cfg.number_precision
      [] v[1] = "table" ->
            /\ \A k \in DOMAIN v[2] : Kept(v[2][k]) /\ v[2][k] # <<"nil">>
            /\ \/ \A k \in DOMAIN v[2] : k[1] = "string"
               \/ DOMAIN v[2] = {<<"number", i>> : i \in 1..Cardinality(DOMAIN v[2])}
      [] v[1] \in {"string", "boolean", "null"} -> TRUE
      [] OTHER -> FALSE

\* A value that JSON can hold comes back from its text, and so does what any
\* text was read as; and decodeb agrees with decode if a NUL ends the data.
\* (lua_cjson.c: json_encode, json_decode, json_decodeb)
JsonRight ==
    /\ Returned("encode") /\ ~result.err /\ Kept(call.v) =>
          json_decode(result.json.text) = Parsed(call.v, Len(result.json.text) + 1)
    /\ Returned("decode") /\ result.ok /\ Kept(result.value) =>
          LET again == encoding(result.value)
          IN again.err \/ json_decode(again.json.text).value = result.value
    /\ Returned("decodeb") /\ (call.behind = <<>> \/ call.behind[1] = NUL) =>
          result = json_decode(call.t)

\* A string that is read from data puts no more into json->tmp, told of a
\* text of len bytes, than fits, with the NUL behind it.
TmpFits(data, len, Strings(_)) ==
    \A i \in DOMAIN data :
        LET token == json_next_string_token(data, i)
        IN data[i] = QUOTE /\ Strings(token) => Len(token.value) < tmp_size(len)

\* The strbuf has room for every byte that is written without asking, for
\* the NUL behind it, and for every string that is decoded, even one that
\* turns out to be wrong; and it is not held when it is not to be kept.
\* decodeb makes room for the data of the buffer and reads on to a NUL, which
\* README_zh.md:2054 leaves to its caller, so of decodeb this is said of the
\* strings that end inside the data or at a NUL right behind it only (README,
\* differences).  (strbuf.c, lua_cjson.c: json_append_string,
\* json_next_string_token, lua_json_decode)
StrbufFits ==
    /\ Returned("encode") =>
          /\ result.json.fits
          /\ json_cfg.encode_keep_buffer => encode_buf > Len(result.json.text)
          /\ ~json_cfg.encode_keep_buffer => encode_buf = 0
    /\ Returned("decode") => TmpFits(call.t, Len(call.t), LAMBDA token : TRUE)
    /\ Returned("decodeb") =>
          TmpFits(call.t \o call.behind, Len(call.t), LAMBDA token : token.index <= Len(call.t) + 1)
=============================================================================
