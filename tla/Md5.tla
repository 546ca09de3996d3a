-------------------------------- MODULE Md5 --------------------------------
(***************************************************************************)
(* std/lmd5.c: the MD5 digest of a message, a sequence of bytes.  A WORD32 *)
(* is the set of its bits that are one.                                    *)
(***************************************************************************)
EXTENDS Integers, Sequences

LOCAL INSTANCE FiniteSetsExt

WORD == 32
Word == 0..(WORD - 1)

natural(w) == MapThenSumSet(LAMBDA b : 2 ^ b, w)
bits(v, at) == {at + b : b \in {b \in 0..15 : (v \div 2 ^ b) % 2 = 1}}
word(hi, lo) == bits(hi, 16) \union bits(lo, 0)

add(x, y) ==
    LET lo(w) == natural(w \intersect 0..15)
        hi(w) == natural({b - 16 : b \in w \intersect 16..31})
        sum == lo(x) + lo(y)
    IN word((hi(x) + hi(y) + (sum \div 65536)) % 65536, sum % 65536)

rotate(D, num) == {(b + num) % WORD : b \in D}

not(x) == Word \ x
xor(x, y) == (x \ y) \union (y \ x)

F(x, y, z) == (x \intersect y) \union (not(x) \intersect z)
G(x, y, z) == (x \intersect z) \union (y \intersect not(z))
H(x, y, z) == xor(x, xor(y, z))
I(x, y, z) == xor(y, x \union not(z))

Sines == <<
    <<\hd76a, \ha478>>, <<\he8c7, \hb756>>, <<\h2420, \h70db>>, <<\hc1bd, \hceee>>,
    <<\hf57c, \h0faf>>, <<\h4787, \hc62a>>, <<\ha830, \h4613>>, <<\hfd46, \h9501>>,
    <<\h6980, \h98d8>>, <<\h8b44, \hf7af>>, <<\hffff, \h5bb1>>, <<\h895c, \hd7be>>,
    <<\h6b90, \h1122>>, <<\hfd98, \h7193>>, <<\ha679, \h438e>>, <<\h49b4, \h0821>>,
    <<\hf61e, \h2562>>, <<\hc040, \hb340>>, <<\h265e, \h5a51>>, <<\he9b6, \hc7aa>>,
    <<\hd62f, \h105d>>, <<\h0244, \h1453>>, <<\hd8a1, \he681>>, <<\he7d3, \hfbc8>>,
    <<\h21e1, \hcde6>>, <<\hc337, \h07d6>>, <<\hf4d5, \h0d87>>, <<\h455a, \h14ed>>,
    <<\ha9e3, \he905>>, <<\hfcef, \ha3f8>>, <<\h676f, \h02d9>>, <<\h8d2a, \h4c8a>>,
    <<\hfffa, \h3942>>, <<\h8771, \hf681>>, <<\h6d9d, \h6122>>, <<\hfde5, \h380c>>,
    <<\ha4be, \hea44>>, <<\h4bde, \hcfa9>>, <<\hf6bb, \h4b60>>, <<\hbebf, \hbc70>>,
    <<\h289b, \h7ec6>>, <<\heaa1, \h27fa>>, <<\hd4ef, \h3085>>, <<\h0488, \h1d05>>,
    <<\hd9d4, \hd039>>, <<\he6db, \h99e5>>, <<\h1fa2, \h7cf8>>, <<\hc4ac, \h5665>>,
    <<\hf429, \h2244>>, <<\h432a, \hff97>>, <<\hab94, \h23a7>>, <<\hfc93, \ha039>>,
    <<\h655b, \h59c3>>, <<\h8f0c, \hcc92>>, <<\hffef, \hf47d>>, <<\h8584, \h5dd1>>,
    <<\h6fa8, \h7e4f>>, <<\hfe2c, \he6e0>>, <<\ha301, \h4314>>, <<\h4e08, \h11a1>>,
    <<\hf753, \h7e82>>, <<\hbd3a, \hf235>>, <<\h2ad7, \hd2bb>>, <<\heb86, \hd391>> >>

T == [i \in 0..63 |-> word(Sines[i + 1][1], Sines[i + 1][2])]

\* The words of a digest, before it starts.
inic_digest ==
    <<word(\h6745, \h2301), word(\hefcd, \hab89), word(\h98ba, \hdcfe), word(\h1032, \h5476)>>

-----------------------------------------------------------------------------
\* digest.  Four rounds of sixteen steps; step i takes word k(i) of the block.
message_index_shifted(i) == CASE i < 16 -> i
                              [] i \in 16..31 -> (5 * i) % 16
                              [] i \in 32..47 -> (3 * i + 5) % 16
                              [] i \in 48..63 -> (7 * i) % 16

message_index(i) == CASE i < 16 -> i
                      [] i \in 16..31 -> (5 * i + 1) % 16
                      [] i \in 32..47 -> (3 * i + 5) % 16
                      [] i \in 48..63 -> (7 * i) % 16

rotation(i) ==
    <<<<7, 12, 17, 22>>, <<5, 9, 14, 20>>, <<4, 11, 16, 23>>, <<6, 10, 15, 21>>>>
        [(i \div 16) + 1][(i % 4) + 1]

mix(i, x, y, z) ==
    CASE i < 16 -> F(x, y, z) [] i \in 16..31 -> G(x, y, z)
      [] i \in 32..47 -> H(x, y, z) [] i \in 48..63 -> I(x, y, z)

\* Each step changes one word of d, the words taking turns: 0, 3, 2, 1.
digest_step(m, d, i) ==
    LET a == (4 - (i % 4)) % 4
        at(n) == d[((a + n) % 4) + 1]
        sum == add(add(add(at(0), mix(i, at(1), at(2), at(3))), m[message_index(i) + 1]), T[i])
    IN [d EXCEPT ![a + 1] = add(rotate(sum, rotation(i)), at(1))]

\* One of the four rounds.
digest_round(m, d, round) ==
    LET step[i \in 0..16] ==
            IF i = 0 THEN d ELSE digest_step(m, step[i - 1], 16 * round + i - 1)
    IN step[16]

-----------------------------------------------------------------------------
\* Sixteen words of 64 bytes, the lowest byte first.
bytestoword32(pt) ==
    [i \in 1..16 |-> word(pt[4 * i] * 256 + pt[4 * i - 1], pt[4 * i - 2] * 256 + pt[4 * i - 3])]

\* The length in bits, in the last two words.
put_length(x, len) ==
    [x EXCEPT ![15] = word((len \div 8192) % 65536, (len * 8) % 65536),
              ![16] = bits((len \div 2 ^ 29) % 8, 0)]

\* A block of the message, the 1 bit put behind its end if that was not yet
\* done, and the status: 0, a whole block; 1, no room for the length; 2, done.
converte(bytes, old_status) ==
    LET num == Len(bytes)
        padded == [i \in 1..64 |-> IF i <= num THEN bytes[i]
                                   ELSE IF i = num + 1 /\ old_status = 0 THEN 128 ELSE 0]
    IN [words |-> bytestoword32(padded),
        status |-> IF num <= 64 - 9 THEN 2 ELSE IF num < 64 THEN 1 ELSE 0]

-----------------------------------------------------------------------------
\* md5: one block at a time, its rounds being steps of their own here.
VARIABLE md     \* message, i, status, wbuff, round, d and d_old

Md5Idle == [message |-> <<>>, i |-> 0, status |-> 2, wbuff |-> <<>>, round |-> 5,
            d |-> <<>>, d_old |-> <<>>]

Hashing == md.round # 5

md5_call(message) ==
    md' = [Md5Idle EXCEPT !.message = message, !.status = 0, !.round = 4,
                          !.d = inic_digest, !.d_old = <<{}, {}, {}, {}>>]

md5_block ==
    LET len == Len(md.message)
        numbytes == IF len - md.i >= 64 THEN 64 ELSE len - md.i
        conv == converte(SubSeq(md.message, md.i + 1, md.i + numbytes), md.status)
    IN /\ md.round = 4 /\ md.status # 2
       /\ md' = [md EXCEPT !.status = conv.status, !.i = @ + numbytes, !.round = 0,
                           !.wbuff = IF conv.status = 2 THEN put_length(conv.words, len)
                                     ELSE conv.words,
                           !.d_old = md.d]

md5_round ==
    LET d == digest_round(md.wbuff, md.d, md.round)
    IN /\ md.round < 4
       /\ md' = [md EXCEPT !.round = @ + 1,
                           !.d = IF md.round < 3 THEN d
                                 ELSE [k \in 1..4 |-> add(d[k], md.d_old[k])]]

Digested == md.round = 4 /\ md.status = 2

\* word32tobytes and lmd5: the digest's hexadecimal digits, four at a time.
md5_text ==
    LET byte(k) == natural({b % 8 : b \in {b \in md.d[(k \div 4) + 1] : b \div 8 = k % 4}})
    IN [i \in 1..8 |-> byte(2 * i - 2) * 256 + byte(2 * i - 1)]
=============================================================================
