-------------------------------- MODULE Json --------------------------------
(***************************************************************************)
(* contrib/cjson: encoding of Lua values into a strbuf that is kept from   *)
(* call to call, and decoding.  A text is a sequence of bytes.  A Lua      *)
(* value is a tuple that starts with its type; a number is an integer, or  *)
(* "badnum", which stands for NaN and the infinities; a table is a         *)
(* function from keys to values.                                           *)
(***************************************************************************)
EXTENDS Bytes

LOCAL INSTANCE SequencesExt

LOCAL INSTANCE FiniteSetsExt

CONSTANTS
    DefaultSize,    \* STRBUF_DEFAULT_SIZE (1023)
    FmtRoom,        \* the room asked for a number (32)
    MaxStack        \* the nesting for which the Lua stack has room

VARIABLES
    json_cfg,       \* the configuration
    encode_buf      \* the size of the persistent strbuf; 0: it is freed

jsonvars == <<json_cfg, encode_buf>>

QUOTE == 34   APLUS == 43   ACOMMA == 44   MINUS == 45   DOT == 46   ACOLON == 58
OPEN == 91    BSLASH == 92  CLOSE == 93    BEGIN == 123  END == 125  DEL == 127

digits == 48..57

true == <<116, 114, 117, 101>>
false == <<102, 97, 108, 115, 101>>
null == <<110, 117, 108, 108>>
inf == <<105, 110, 102>>
nan == <<110, 97, 110>>

-----------------------------------------------------------------------------
\* strbuf.c, strbuf.h.  fits: no byte was ever written behind the block.

strbuf(size) == [text |-> <<>>, size |-> size, fits |-> TRUE]

strbuf_new(len) == strbuf(IF len <= 0 THEN DefaultSize ELSE len + 1)

empty_length(s) == s.size - Len(s.text) - 1

increment == -2

\* Doubled until it fits; a linear increment adds no more than itself.
calculate_new_size(size, len) ==
    LET times(k) == size * (-increment) ^ k
        fewest == CHOOSE k \in 0..len : times(k) > len /\ (k = 0 \/ times(k - 1) <= len)
    IN IF size > len + 1 THEN len + 1
       ELSE IF increment < 0 THEN times(fewest)
       ELSE ((size + increment - 1) \div increment) * increment

resize(s, len) == [s EXCEPT !.size = calculate_new_size(@, len)]

ensure_empty_no_nul(s, len) ==
    IF len > empty_length(s) + 1 THEN resize(s, Len(s.text) + len) ELSE s

ensure_empty(s, len) == IF len > empty_length(s) THEN resize(s, Len(s.text) + len) ELSE s

append_unsafe(s, bytes) ==
    [s EXCEPT !.text = @ \o bytes, !.fits = @ /\ Len(bytes) <= empty_length(s)]

append_mem(s, bytes) == append_unsafe(ensure_empty(s, Len(bytes)), bytes)

\* One byte at a time, each making room for itself.
append_string(s, bytes) == FoldLeft(LAMBDA t, b : append_mem(t, <<b>>), s, bytes)

\* vsnprintf writes len bytes at most, the last of them a NUL; the length counts
\* those that were cut off, too.
append_fmt(s, len, bytes) ==
    append_unsafe(ensure_empty(s, len), [i \in DOMAIN bytes |-> IF i < len THEN bytes[i] ELSE NUL])

-----------------------------------------------------------------------------
\* Encoding.

decimal(n) ==
    LET dec[k \in 0..n] == IF k < 10 THEN <<48 + k>> ELSE Append(dec[k \div 10], 48 + (k % 10))
    IN dec[n]

\* The digits "all" with an exponent, without zeros at their end.
exponent_fmt(all, exp) ==
    LET last == CHOOSE i \in DOMAIN all : all[i] # 48 /\ \A j \in (i + 1)..Len(all) : all[j] = 48
        power == exp + Len(all) - 1
    IN <<all[1]>> \o (IF last = 1 THEN <<>> ELSE <<DOT>> \o SubSeq(all, 2, last))
       \o <<101, APLUS, 48 + (power \div 10), 48 + (power % 10)>>

\* "%.Ng" of an integer: at most N digits, rounded half to even.
number_fmt(v, prec) ==
    LET a == IF v < 0 THEN -v ELSE v
        exp == Len(decimal(a)) - prec
        unit == 10 ^ exp
        r == (a \div unit) + IF 2 * (a % unit) > unit
                                \/ (2 * (a % unit) = unit /\ (a \div unit) % 2 = 1) THEN 1 ELSE 0
    IN (IF v < 0 THEN <<MINUS>> ELSE <<>>) \o
       IF exp <= 0 THEN decimal(a) ELSE exponent_fmt(decimal(r), exp)

hexchar(n) == IF n < 10 THEN 48 + n ELSE 87 + n

char2escape(c) ==
    CASE c = 8 -> <<BSLASH, 98>> [] c = 9 -> <<BSLASH, 116>> [] c = LF -> <<BSLASH, 110>>
      [] c = 12 -> <<BSLASH, 102>> [] c = CR -> <<BSLASH, 114>>
      [] c \in {QUOTE, BSLASH, 47} -> <<BSLASH, c>>
      [] c \in ((0..31) \ {8, 9, LF, 12, CR}) \union {DEL} ->
            <<BSLASH, 117, 48, 48, hexchar(c \div 16), hexchar(c % 16)>>
      [] OTHER -> <<>>

\* The state of an encoding: the strbuf, the depth, and whether it failed.
Failed(st) == [st EXCEPT !.err = TRUE]
put(st, bytes) == [st EXCEPT !.json = append_mem(@, bytes)]

json_append_string(st, str) ==
    LET room == ensure_empty(st.json, 6 * Len(str) + 2)
        add(s, c) == IF char2escape(c) = <<>> THEN append_unsafe(s, <<c>>)
                     ELSE append_string(s, char2escape(c))
    IN [st EXCEPT !.json = append_unsafe(FoldLeft(add, append_unsafe(room, <<QUOTE>>), str), <<QUOTE>>)]

json_append_number(st, num) ==
    IF num[1] = "badnum"
    THEN IF json_cfg.encode_refuse_badnum THEN Failed(st)
         ELSE [st EXCEPT !.json = append_fmt(@, FmtRoom, inf)]
    ELSE [st EXCEPT !.json = append_fmt(@, FmtRoom, number_fmt(num[2], json_cfg.number_precision))]

\* -1: an object.  -2: the array has too few of its elements to be encoded.
lua_array_length(t) ==
    LET max == IF t = <<>> THEN 0 ELSE Max({k[2] : k \in DOMAIN t})
        items == Cardinality(DOMAIN t)
        sparse == /\ json_cfg.encode_sparse_ratio > 0
                  /\ max > items * json_cfg.encode_sparse_ratio
                  /\ max > json_cfg.encode_sparse_safe
    IN IF \E k \in DOMAIN t : k[1] # "number" \/ k[2] < 1 THEN -1
       ELSE IF ~sparse THEN max
       ELSE IF json_cfg.encode_sparse_convert THEN -1 ELSE -2

json_encode_descend(st) ==
    LET d == [st EXCEPT !.depth = @ + 1]
    IN IF d.depth > json_cfg.encode_max_depth THEN Failed(d) ELSE d

\* The end of a table, unless encoding its elements has failed.
ascend(st, bracket) ==
    IF st.err THEN st ELSE [put(st, bracket) EXCEPT !.depth = @ - 1]

RECURSIVE json_append_data(_, _)

json_append_value(st, v) == IF st.err THEN st ELSE json_append_data(st, v)

\* An element that is not there is null.
json_append_array(st, t, len) ==
    LET elem(i) == IF <<"number", i>> \in DOMAIN t THEN t[<<"number", i>>] ELSE <<"nil">>
        upto[i \in 0..len] ==
            IF i = 0 THEN put(st, <<OPEN>>)
            ELSE LET prev == upto[i - 1]
                 IN json_append_value(IF i = 1 \/ prev.err THEN prev ELSE put(prev, <<ACOMMA>>), elem(i))
    IN ascend(upto[len], <<CLOSE>>)

json_append_key(st, key) ==
    CASE key[1] = "number" -> put(json_append_number(put(st, <<QUOTE>>), key), <<QUOTE, ACOLON>>)
      [] key[1] = "string" -> put(json_append_string(st, key[2]), <<ACOLON>>)
      [] OTHER -> Failed(st)

\* lua_next goes through the keys in an order of its own.
json_append_object(st, t) ==
    LET keys == SetToSeq(DOMAIN t)
        upto[i \in 0..Len(keys)] ==
            IF i = 0 THEN put(st, <<BEGIN>>)
            ELSE LET prev == upto[i - 1]
                 IN IF prev.err THEN prev
                    ELSE json_append_value(
                             json_append_key(IF i = 1 THEN prev ELSE put(prev, <<ACOMMA>>), keys[i]),
                             t[keys[i]])
    IN ascend(upto[Len(keys)], <<END>>)

json_append_data(st, v) ==
    CASE v[1] = "string" -> json_append_string(st, v[2])
      [] v[1] \in {"number", "badnum"} -> json_append_number(st, v)
      [] v[1] = "boolean" -> put(st, IF v[2] THEN true ELSE false)
      [] v[1] \in {"nil", "null"} -> put(st, null)
      [] v[1] = "table" ->
            LET len == lua_array_length(v[2])
                d == json_encode_descend(st)
            IN IF len = -2 THEN Failed(st) ELSE IF d.err THEN d
               ELSE IF len >= 0 THEN json_append_array(d, v[2], len) ELSE json_append_object(d, v[2])
      [] OTHER -> Failed(st)

\* What encoding v into the persistent buffer gives.
encoding(v) ==
    json_append_data([json |-> strbuf(IF encode_buf > 0 THEN encode_buf ELSE DefaultSize),
                      depth |-> 0, err |-> FALSE], v)

\* encode, and encodeb, which puts the text into a buffer: the strbuf is kept
\* for the next call, or freed, whether the value could be encoded or not.
json_encode(v) ==
    /\ encode_buf' = IF json_cfg.encode_keep_buffer THEN encoding(v).json.size ELSE 0
    /\ UNCHANGED json_cfg

-----------------------------------------------------------------------------
\* Decoding.  The text ends at the first NUL.

char(data, i) == IF i <= Len(data) THEN data[i] ELSE NUL
at(data, i, s) == \A k \in DOMAIN s : char(data, i + k - 1) = s[k]

lower(c) == IF c \in 65..90 THEN c + 32 ELSE c

hexdigit2int(c) ==
    IF c \in digits THEN c - 48 ELSE IF lower(c) \in 97..102 THEN lower(c) - 87 ELSE -1

decode_hex4(data, i) ==
    LET digit == [k \in 0..3 |-> hexdigit2int(char(data, i + k))]
    IN IF \E k \in 0..3 : digit[k] < 0 THEN -1
       ELSE digit[0] * 4096 + digit[1] * 256 + digit[2] * 16 + digit[3]

codepoint_to_utf8(c) ==
    LET low(n) == 128 + ((c \div 64 ^ n) % 64)
    IN IF c <= 127 THEN <<c>>
       ELSE IF c <= 2047 THEN <<192 + (c \div 64), low(0)>>
       ELSE IF c <= 65535 THEN <<224 + (c \div 4096), low(1), low(0)>>
       ELSE <<240 + (c \div 262144), low(2), low(1), low(0)>>

BadEscape == [bytes |-> <<>>, next |-> 0]

\* The bytes of the escape that starts at i, and where it ends.
json_append_unicode_escape(data, i) ==
    LET unit == decode_hex4(data, i + 2)
        second == decode_hex4(data, i + 8)
    IN IF unit < 0 THEN BadEscape
       ELSE IF unit \notin 55296..57343
       THEN [bytes |-> codepoint_to_utf8(unit), next |-> i + 6]
       ELSE IF unit >= 56320 \/ ~at(data, i + 6, <<BSLASH, 117>>) THEN BadEscape
       ELSE IF second \notin 56320..57343 THEN BadEscape
       ELSE [bytes |-> codepoint_to_utf8((unit % 1024) * 1024 + (second % 1024) + 65536),
             next |-> i + 12]

escape2char_no_slash(c) ==
    CASE c \in {QUOTE, BSLASH} -> c
      [] c = 98 -> 8 [] c = 116 -> 9 [] c = 110 -> LF [] c = 102 -> 12 [] c = 114 -> CR
      [] OTHER -> 0

escape2char(c) ==
    CASE c \in {QUOTE, BSLASH, 47} -> c
      [] c = 98 -> 8 [] c = 116 -> 9 [] c = 110 -> LF [] c = 102 -> 12 [] c = 114 -> CR
      [] OTHER -> 0

escape(data, i) ==
    LET c == char(data, i + 1)
    IN IF c = 117 THEN json_append_unicode_escape(data, i)
       ELSE IF escape2char(c) = 0 THEN BadEscape
       ELSE [bytes |-> <<escape2char(c)>>, next |-> i + 2]

Token(type, value, index) == [type |-> type, value |-> value, index |-> index]
Error(index) == Token("T_ERROR", <<>>, index)

\* What a character or an escape adds to a string, and where the next starts.
string_step(data, i) ==
    IF char(data, i) = BSLASH THEN escape(data, i)
    ELSE [bytes |-> <<char(data, i)>>, next |-> i + 1]

prepend(bytes, token) == [token EXCEPT !.value = bytes \o @]

\* The value is what has been put into json->tmp, even if an error ends it.
json_next_string_token(data, index) ==
    LET from[i \in (index + 1)..(Len(data) + 1)] ==
            LET step == string_step(data, i)
            IN IF char(data, i) = QUOTE THEN Token("T_STRING", <<>>, i + 1)
               ELSE IF char(data, i) = NUL \/ step = BadEscape THEN Error(i)
               ELSE prepend(step.bytes, from[step.next])
    IN from[index + 1]

json_is_invalid_number(data, index) ==
    LET i == IF char(data, index) = MINUS THEN index + 1 ELSE index
        word == [k \in 1..3 |-> lower(char(data, i + k - 1))]
    IN IF char(data, index) = APLUS THEN TRUE
       ELSE IF char(data, i) = 48 THEN lower(char(data, i + 1)) = 120 \/ char(data, i + 1) \in digits
       ELSE char(data, i) > 57 /\ word \in {inf, nan}

digits_end(data, k, base) ==
    LET digit(i) == hexdigit2int(char(data, i)) \in 0..(base - 1)
    IN CHOOSE e \in k..(Len(data) + 1) : ~digit(e) /\ \A j \in k..(e - 1) : digit(j)

digits_value(data, k, end, base) ==
    FoldLeft(LAMBDA n, c : n * base + hexdigit2int(c), 0, SubSeq(data, k, end - 1))

\* Where a fraction and an exponent end, if there are any.
fraction_end(data, k) == IF char(data, k) = DOT THEN digits_end(data, k + 1, 10) ELSE k
exponent_end(data, k) ==
    IF at(data, k, <<101, APLUS>>) /\ char(data, k + 2) \in digits THEN digits_end(data, k + 2, 10) ELSE k

decimal_value(data, first, point, power, end) ==
    LET frac == IF power = point THEN 0 ELSE power - point - 1
        exp == IF end = power THEN 0 ELSE digits_value(data, power + 2, end, 10)
    IN (digits_value(data, first, point, 10) * 10 ^ frac
        + digits_value(data, point + 1, power, 10)) * 10 ^ (exp - frac)

\* strtod, of what a text here may hold: decimal and hexadecimal integers,
\* a fraction that an exponent makes whole, inf and nan.
strtod(data, index) ==
    LET i == IF char(data, index) \in {MINUS, APLUS} THEN index + 1 ELSE index
        sign == IF char(data, index) = MINUS THEN -1 ELSE 1
        word == [k \in 1..3 |-> lower(char(data, i + k - 1))]
        hex == char(data, i) = 48 /\ lower(char(data, i + 1)) = 120 /\ hexdigit2int(char(data, i + 2)) >= 0
        Number(n, end) == Token("T_NUMBER", <<"number", sign * n>>, end)
        Decimal(point, power) ==
            Number(decimal_value(data, i, point, power, exponent_end(data, power)),
                   exponent_end(data, power))
        Fraction(point) == Decimal(point, fraction_end(data, point))
    IN IF word \in {inf, nan} THEN Token("T_NUMBER", <<"badnum">>, i + 3)
       ELSE IF hex THEN LET end == digits_end(data, i + 2, 16)
                        IN Number(digits_value(data, i + 2, end, 16), end)
       ELSE IF char(data, i) \notin digits THEN Error(index)
       ELSE Fraction(digits_end(data, i, 10))

ch2token(c) ==
    CASE c = BEGIN -> "T_OBJ_BEGIN" [] c = END -> "T_OBJ_END"
      [] c = OPEN -> "T_ARR_BEGIN" [] c = CLOSE -> "T_ARR_END"
      [] c = ACOMMA -> "T_COMMA" [] c = ACOLON -> "T_COLON" [] c = NUL -> "T_END"
      [] c \in {102, 105, 73, 110, 78, 116, QUOTE, APLUS, MINUS} \union digits -> "T_UNKNOWN"
      [] OTHER -> "T_ERROR"

token_at(data, i) ==
    LET c == char(data, i)
        type == ch2token(c)
        bad == json_is_invalid_number(data, i)
    IN CASE type \in {"T_ERROR", "T_END"} -> Token(type, <<>>, i)
         [] type \notin {"T_ERROR", "T_END", "T_UNKNOWN"} -> Token(type, <<>>, i + 1)
         [] c = QUOTE -> json_next_string_token(data, i)
         [] c = MINUS \/ c \in digits ->
               IF json_cfg.decode_refuse_badnum /\ bad THEN Error(i) ELSE strtod(data, i)
         [] at(data, i, true) -> Token("T_BOOLEAN", TRUE, i + 4)
         [] at(data, i, false) -> Token("T_BOOLEAN", FALSE, i + 5)
         [] at(data, i, null) -> Token("T_NULL", <<>>, i + 4)
         [] OTHER -> IF ~json_cfg.decode_refuse_badnum /\ bad THEN strtod(data, i) ELSE Error(i)

json_next_token(data, from) ==
    token_at(data, CHOOSE i \in from..(Len(data) + 1) :
                       /\ char(data, i) \notin {32, 9, LF, CR}
                       /\ \A j \in from..(i - 1) : char(data, j) \in {32, 9, LF, CR})

\* What was parsed, and where it ends; the only error is that there was one.
Parsed(v, index) == [ok |-> TRUE, value |-> v, index |-> index]
ParseError == [ok |-> FALSE, value |-> <<"nil">>, index |-> 0]

Set(t, key, v) == [k \in DOMAIN t \union {key} |-> IF k = key THEN v ELSE t[k]]

RECURSIVE json_process_value(_, _, _)

\* The members of an object, or the elements of an array, from token on; the
\* table so far is t.
RECURSIVE json_parse_object(_, _, _, _)
RECURSIVE json_parse_array(_, _, _, _)

\* What follows the value of a key: the end, or the next member or element.
json_parse_next(tok, token, t, depth, end) ==
    CASE token.type = end -> Parsed(<<"table", t>>, token.index)
      [] token.type = "T_COMMA" /\ end = "T_OBJ_END" ->
            json_parse_object(tok, tok[token.index], t, depth)
      [] token.type = "T_COMMA" /\ end = "T_ARR_END" ->
            json_parse_array(tok, tok[token.index], t, depth)
      [] OTHER -> ParseError

json_set(tok, t, key, v, depth, end) ==
    IF v.ok THEN json_parse_next(tok, tok[v.index], Set(t, key, v.value), depth, end)
    ELSE ParseError

json_parse_object(tok, token, t, depth) ==
    LET colon == tok[token.index]
    IN IF token.type # "T_STRING" \/ colon.type # "T_COLON" THEN ParseError
       ELSE json_set(tok, t, <<"string", token.value>>,
                     json_process_value(tok, tok[colon.index], depth),
                     depth, "T_OBJ_END")

json_parse_array(tok, token, t, depth) ==
    json_set(tok, t, <<"number", Cardinality(DOMAIN t) + 1>>,
             json_process_value(tok, token, depth), depth, "T_ARR_END")

json_first(tok, token, depth, end) ==
    CASE token.type = end -> Parsed(<<"table", <<>>>>, token.index)
      [] token.type # end /\ end = "T_OBJ_END" -> json_parse_object(tok, token, <<>>, depth)
      [] token.type # end /\ end = "T_ARR_END" -> json_parse_array(tok, token, <<>>, depth)

json_process_value(tok, token, depth) ==
    CASE token.type = "T_STRING" -> Parsed(<<"string", token.value>>, token.index)
      [] token.type = "T_NUMBER" -> Parsed(token.value, token.index)
      [] token.type = "T_BOOLEAN" -> Parsed(<<"boolean", token.value>>, token.index)
      [] token.type = "T_NULL" -> Parsed(<<"null">>, token.index)
      [] token.type \in {"T_OBJ_BEGIN", "T_ARR_BEGIN"} /\ depth >= MaxStack -> ParseError
      [] token.type = "T_OBJ_BEGIN" /\ depth < MaxStack ->
            json_first(tok, tok[token.index], depth + 1, "T_OBJ_END")
      [] token.type = "T_ARR_BEGIN" /\ depth < MaxStack ->
            json_first(tok, tok[token.index], depth + 1, "T_ARR_END")
      [] OTHER -> ParseError

\* A value with nothing but space behind it.  tok: the token that starts at or
\* after each position.
alone(tok, v) == IF v.ok /\ tok[v.index].type = "T_END" THEN v ELSE ParseError

json_decode_tokens(tok) == alone(tok, json_process_value(tok, tok[1], 0))

lua_json_decode(data) ==
    json_decode_tokens([i \in 1..(Len(data) + 1) |-> json_next_token(data, i)])

\* The size of json->tmp, from the length that lua_json_decode is told.
tmp_size(json_len) == strbuf_new(json_len).size

\* UTF-16 is recognised by its zeros.
utf16(data) == Len(data) >= 2 /\ NUL \in {data[1], data[2]}

json_decode(data) == IF utf16(data) THEN ParseError ELSE lua_json_decode(data)

\* decodeb reads the data of a buffer or a reader, and what lies behind it in
\* memory: its size is looked at, but the text ends at a NUL.
json_decodeb(content, behind) ==
    IF utf16(content) THEN ParseError ELSE lua_json_decode(content \o behind)

-----------------------------------------------------------------------------
\* Configuration.  Each argument is checked, and set, from the last to the
\* first: an error leaves those behind it changed.
DefaultCfg ==
    [encode_sparse_convert |-> FALSE, encode_sparse_ratio |-> 2,
     encode_sparse_safe |-> 10, encode_max_depth |-> 20,
     encode_refuse_badnum |-> TRUE, decode_refuse_badnum |-> FALSE,
     encode_keep_buffer |-> TRUE, number_precision |-> 14]

JsonInit == json_cfg = DefaultCfg /\ encode_buf = DefaultSize

Configures(c) == json_cfg' = c /\ UNCHANGED encode_buf

json_cfg_encode_sparse_array(convert, ratio, safe) ==
    Configures(
        IF safe < 0 THEN json_cfg
        ELSE IF ratio < 0 THEN [json_cfg EXCEPT !.encode_sparse_safe = safe]
        ELSE [json_cfg EXCEPT !.encode_sparse_safe = safe, !.encode_sparse_ratio = ratio,
                              !.encode_sparse_convert = convert])

json_cfg_encode_max_depth(depth) ==
    Configures(IF depth > 0 THEN [json_cfg EXCEPT !.encode_max_depth = depth] ELSE json_cfg)

json_cfg_encode_number_precision(prec) ==
    Configures(IF prec \in 1..14 THEN [json_cfg EXCEPT !.number_precision = prec] ELSE json_cfg)

json_cfg_encode_keep_buffer(keep) == Configures([json_cfg EXCEPT !.encode_keep_buffer = keep])

json_cfg_refuse_invalid_numbers(enc, dec) ==
    Configures([json_cfg EXCEPT !.encode_refuse_badnum = enc, !.decode_refuse_badnum = dec])
=============================================================================
