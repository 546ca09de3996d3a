------------------------------- MODULE Buffer -------------------------------
(***************************************************************************)
(* The buffer of std/lbuffer.c, with the reader (std/lreader.c) and the    *)
(* writer that look into its memory.  The data is a window of one block:   *)
(* reads move its left edge, writes its right edge, and the window is      *)
(* moved to the front or to a larger block when there is no room.          *)
(* A reader keeps a pointer into the block, a writer an offset into the    *)
(* data; neither is told when the data moves.                              *)
(***************************************************************************)
EXTENDS Bytes, SequencesExt

CONSTANTS
    minsiz,     \* the size of the first block
    AbsSmall,   \* below so many bytes data is moved to the front (64)
    MaxMem,     \* bound: the largest block the model allocates
    Orders,     \* the byte orders that are asked for (TRUE: big-endian)
    Off,        \* the offsets that operations are called with
    Views,      \* bound: how many of the reader and the writer are used at once
    Junk,       \* a byte of memory nobody has written
    Str,        \* the strings that are put
    Val,        \* the integers that are put
    Num,        \* the counts that operations are called with
    Widths,     \* the widths of put and get: 1 for b, 2 for w, 4 for u
    Types       \* the formats of getlist and putlist

ASSUME MinsizAssumption == minsiz \in Nat \ {0}
ASSUME SmallAssumption == AbsSmall \in Nat
ASSUME BoundAssumption == MaxMem \in Nat
ASSUME ArgumentAssumption ==
    /\ Str \subseteq Seq(0..255) /\ Val \subseteq Int
    /\ Num \subseteq Nat /\ Off \subseteq Nat
    /\ Widths \subseteq {1, 2, 4} /\ Types \subseteq Seq(STRING)
    /\ Orders \subseteq BOOLEAN

VARIABLES
    buf,        \* mem: the block; lgap: bytes before the data; datasiz; be
    rd,         \* the reader: base, shifted and left say where it points
    wr,         \* the writer: offset into the data, length, cursor
    mem_total   \* bytes allocated, as lstd.c counts them

vars == <<buf, rd, wr, mem_total>>

memsiz(b) == Len(b.mem)
rgap(b) == memsiz(b) - b.datasiz - b.lgap

\* What Lua sees of the buffer.
Content(b) == SubSeq(b.mem, b.lgap + 1, b.lgap + b.datasiz)

Fresh == [mem |-> <<>>, lgap |-> 0, datasiz |-> 0, be |-> TRUE]

\* No reader, or one that must not be used any more.
NoReader == [base |-> 0, shifted |-> 0, left |-> 0, usable |-> FALSE]
NoWriter == [offset |-> 0, length |-> 0, cursor |-> 0, usable |-> FALSE]

-----------------------------------------------------------------------------
\* Memory.  Bytes outside the data are not tracked: they are Junk.

\* n bytes of b from index `from` on, at the front of a block of size siz.
block_from_start(b, from, n, siz) ==
    [i \in 1..siz |-> IF i <= n THEN b.mem[i] ELSE Junk]

block(b, from, n, siz) ==
    [i \in 1..siz |-> IF i <= n THEN b.mem[from + i] ELSE Junk]

to_front(b) == [b EXCEPT !.mem = block(b, b.lgap, b.datasiz, memsiz(b)), !.lgap = 0]

\* The sizes a block is grown to: doubled until the data and the growth fit.
newsiz(b, growth) ==
    LET size[k \in 0..MaxMem] ==
            IF k = 0 THEN IF memsiz(b) = 0 THEN minsiz ELSE 2 * memsiz(b)
            ELSE 2 * size[k - 1]
    IN {s \in {size[k] : k \in 0..MaxMem} :
           s >= growth + b.datasiz /\ s <= MaxMem}

Affordable(b, growth) == rgap(b) + b.lgap >= growth \/ newsiz(b, growth) # {}

\* buffer_grow.
grow(b, growth) ==
    LET room == IF rgap(b) >= growth THEN b
                ELSE IF b.lgap + rgap(b) >= growth THEN to_front(b)
                ELSE LET siz == CHOOSE s \in newsiz(b, growth) :
                                    \A t \in newsiz(b, growth) : s <= t
                     IN [b EXCEPT !.mem = block(b, b.lgap, b.datasiz, siz),
                                  !.lgap = 0]
    IN [room EXCEPT !.datasiz = @ + growth]

\* s written over the data from offset at on.
written(b, at, s) ==
    [b EXCEPT !.mem = [i \in 1..memsiz(b) |->
        IF b.lgap + at < i /\ i <= b.lgap + at + Len(s)
        THEN s[i - b.lgap - at] ELSE b.mem[i]]]

buffer_push(b, s) == written(grow(b, Len(s)), b.datasiz, s)

\* Data that is small, or far back in the block, is moved to the front.
adjust(b) ==
    LET relsmall == b.datasiz < b.lgap \div 4 /\ b.datasiz < rgap(b) \div 4
        abssmall == b.datasiz < memsiz(b) \div 100 \/ b.datasiz < AbsSmall
        close2end == b.lgap * 4 > memsiz(b) * 3 /\ b.datasiz > rgap(b)
    IN IF b.datasiz = 0 THEN [b EXCEPT !.lgap = 0]
       ELSE IF b.lgap # 0 /\ (relsmall \/ abssmall \/ close2end) THEN to_front(b)
       ELSE b

\* The bytes that have left the data are not looked at again.
forget(b) ==
    [b EXCEPT !.mem = [i \in 1..memsiz(b) |->
        IF b.lgap < i /\ i <= b.lgap + b.datasiz THEN b.mem[i] ELSE Junk]]

buffer_pop(b, siz) ==
    forget(adjust([b EXCEPT !.datasiz = @ - Least(siz, b.datasiz)]))

consumed(b, n) == [b EXCEPT !.datasiz = b.datasiz - n, !.lgap = b.lgap + n]

buffer_shift(b, siz) == forget(adjust(consumed(b, Least(siz, b.datasiz))))

buffer_rewind(b) == forget([b EXCEPT !.lgap = 0, !.datasiz = 0])

buffer_reset(b) ==
    LET small == IF memsiz(b) > minsiz THEN minsiz ELSE memsiz(b)
    IN [b EXCEPT !.mem = block(b, 0, 0, small), !.lgap = 0, !.datasiz = 0]

-----------------------------------------------------------------------------
\* What an operation leaves of the views.  README: reading or writing the
\* buffer while a reader is being read has unpredictable results.  A writer
\* outlives everything that is put behind it.

set_buffer(b) ==
    /\ buf' = b
    /\ mem_total' = mem_total - memsiz(buf) + memsiz(b)

\* A reader that is no longer read still knows how far it came.
stale == [NoReader EXCEPT !.shifted = rd.shifted]

Puts(b) == set_buffer(b) /\ rd' = stale /\ UNCHANGED wr

Removes(b) == set_buffer(b) /\ rd' = NoReader /\ wr' = NoWriter

-----------------------------------------------------------------------------
\* Writing at the tail.

pushes(strs) ==
    LET b[i \in 0..Len(strs)] ==
            IF i = 0 THEN buf ELSE buffer_push(b[i - 1], strs[i])
    IN b

lbuffer_putstr(strs) ==
    /\ \A i \in DOMAIN strs : Affordable(pushes(strs)[i - 1], Len(strs[i]))
    /\ Puts(pushes(strs)[Len(strs)])

\* putb, putw and putu: one growth for all the integers.
lbuffer_put(vals, w) ==
    LET put == FlattenSeq([i \in DOMAIN vals |-> to_bytes(vals[i], w, buf.be)])
    IN /\ Affordable(buf, Len(put))
       /\ Puts(buffer_push(buf, put))

\* putlist: one growth for every letter.
lbuffer_putlist(types, vals) ==
    lbuffer_putstr([i \in DOMAIN types |-> to_bytes(vals[i], Width(types[i]), buf.be)])

lbuffer_fill(value, length) ==
    /\ Affordable(buf, length)
    /\ Puts(buffer_push(buf, [i \in 1..length |-> value % 256]))

\* beginlen leaves room for a length that endlen fills in later.
lbuffer_beginlen ==
    /\ Affordable(buf, 4)
    /\ Puts(grow(buf, 4))

-----------------------------------------------------------------------------
\* Writing over what is there.  A reader still points to the same bytes.

Overwrites(b) == buf' = b /\ UNCHANGED <<rd, wr, mem_total>>

lbuffer_endlen(oldlen) ==
    Overwrites(IF oldlen >= 4 /\ oldlen <= buf.datasiz
               THEN written(buf, oldlen - 4, to_bytes(buf.datasiz - oldlen, 4, buf.be))
               ELSE buf)

lbuffer_overwrite(offset, s) ==
    Overwrites(IF offset >= 0 /\ offset + Len(s) <= buf.datasiz
               THEN written(buf, offset, s) ELSE buf)

lbuffer_setbe(be) == Overwrites([buf EXCEPT !.be = be])

-----------------------------------------------------------------------------
\* Reading from the head: what is returned is a function of the bytes removed.

\* As many lines as there are, up to num.
line_ends(d, num) ==
    LET at[i \in 0..num] ==
            IF i = 0 THEN 0 ELSE at[i - 1] + NextLine(Drop(d, at[i - 1])).eaten
    IN at

lbuffer_getline(num) == Removes(buffer_shift(buf, line_ends(Content(buf), num)[num]))

\* getlstr does not move the data that is left.
lbuffer_getlstr(length) == Removes(forget(consumed(buf, Least(length, buf.datasiz))))

\* getb, getw and getu.
lbuffer_get(num, w) == Removes(buffer_shift(buf, total(same_width(Content(buf), num, w))))

\* getlist shifts after every integer.
shifts(widths) ==
    LET b[i \in 0..Len(widths)] ==
            IF i = 0 THEN buf ELSE buffer_shift(b[i - 1], widths[i])
    IN b

lbuffer_getlist(types) ==
    LET widths == list_widths(types, Content(buf))
    IN Removes(shifts(widths)[Len(widths)])

lbuffer_pop(n) == Removes(buffer_pop(buf, n))
lbuffer_shift(n) == Removes(buffer_shift(buf, n))
lbuffer_rewind == Removes(buffer_rewind(buf))
lbuffer_reset == Removes(buffer_reset(buf))

\* shift(reader) removes as many bytes as the reader has passed.
lbuffer_shift_reader == lbuffer_shift(rd.shifted)

\* gc and a new buffer in its place; readers and writers are not told.
lbuffer_gc == Removes(Fresh)

-----------------------------------------------------------------------------
\* Readers: where one points is found from the block, not from the data.

Looks(r) == rd' = r /\ UNCHANGED <<buf, wr, mem_total>>

\* The part of size bytes that offset and length mean.
window_too_long(size, offset, length) ==
    [from |-> IF offset >= size THEN 0 ELSE offset, n |-> length]

window(size, offset, length) ==
    LET from == IF offset >= size THEN 0 ELSE offset
    IN [from |-> from, n |-> Least(length, size - from)]

lbuffer_reader(offset, length) ==
    LET w == window(buf.datasiz, offset, length)
    IN /\ Views = 2 \/ ~wr.usable
       /\ Looks([base |-> buf.lgap + w.from, shifted |-> 0, left |-> w.n, usable |-> TRUE])

Unread == SubSeq(buf.mem, rd.base + rd.shifted + 1, rd.base + rd.shifted + rd.left)

reader_shift(siz) ==
    LET n == Least(siz, rd.left)
    IN [rd EXCEPT !.left = rd.left - n, !.shifted = rd.shifted + n]

Reads(n) == rd.usable /\ Looks(reader_shift(n))

\* getc, getw and getu; getlist; getlstr; skip.
lreader_get(num, w) == Reads(total(same_width(Unread, num, w)))
lreader_getlist(types) == Reads(total(list_widths(types, Unread)))
lreader_getlstr(length) == Reads(length)
lreader_skip(n) == Reads(n)

\* A reader of a part of what this one has not read; it is the one followed.
lreader_sub(offset, length) ==
    LET w == window(rd.left, offset, length)
    IN /\ rd.usable
       /\ Looks([base |-> rd.base + rd.shifted + w.from, shifted |-> 0, left |-> w.n, usable |-> TRUE])

\* A line read through a reader is terminated in the buffer's own memory.
\* getline(1), and each step of eachline.
lreader_getline ==
    LET next == NextLine(Unread)
        at == rd.base + rd.shifted
    IN /\ rd.usable
       /\ buf' = written(buf, at - buf.lgap, after_line(Unread))
       /\ rd' = reader_shift(next.eaten)
       /\ UNCHANGED <<wr, mem_total>>

\* putreader: a part of what a reader has not read is put into the buffer.
\* The reader belongs to another buffer, so here its bytes are a string.
lbuffer_putreader(bytes, offset, length) ==
    LET n == IF offset >= Len(bytes) THEN 0 ELSE Least(length, Len(bytes) - offset)
    IN lbuffer_putstr(<<SubSeq(bytes, offset + 1, offset + n)>>)

-----------------------------------------------------------------------------
\* Writers fill room that was reserved, whatever was put behind it since.

lbuffer_writer(length) ==
    /\ Affordable(buf, length)
    /\ Views = 2 \/ ~rd.usable
    /\ set_buffer(grow(buf, length))
    /\ wr' = [offset |-> buf.datasiz, length |-> length, cursor |-> 0, usable |-> TRUE]
    /\ rd' = stale

\* s at the writer's place.
Fills(s) ==
    /\ buf' = written(buf, wr.offset + wr.cursor, s)
    /\ wr' = [wr EXCEPT !.cursor = @ + Len(s)]
    /\ UNCHANGED <<rd, mem_total>>

lwriter_putc(vals) ==
    LET n == Least(Len(vals), wr.length - wr.cursor)
    IN /\ wr.usable
       /\ Fills([i \in 1..n |-> vals[i] % 256])

\* putw and putu number the arguments from 0 where they mean from the first
\* integer: the first they take is not an argument, which is an error unless
\* something that looks like an integer happens to be there; the second is
\* the writer itself, which is an error.  putu moves on by 2 bytes, not by 4.
lwriter_put(num, w) ==
    LET n == Least(num, (wr.length - wr.cursor) \div w)
        garbage == written(buf, wr.offset + wr.cursor, [i \in 1..w |-> Junk])
    IN /\ wr.usable
       /\ \/ n > 0 /\ UNCHANGED <<buf, wr>>
          \/ n > 1 /\ buf' = garbage /\ UNCHANGED wr
          \/ n = 1 /\ buf' = garbage /\ wr' = [wr EXCEPT !.cursor = @ + 2]
          \/ n = 0 /\ UNCHANGED <<buf, wr>>
       /\ UNCHANGED <<rd, mem_total>>

\* As many of these pieces, in their order, as fit into n bytes.
fitting(pieces, n) ==
    FlattenSeq(Take(pieces, fit([i \in DOMAIN pieces |-> Len(pieces[i])], n)))

\* putstr, and putlist after conversion; it does not know the letter b.
lwriter_putstr(strs) ==
    /\ wr.usable
    /\ Fills(fitting(strs, wr.length - wr.cursor))

lwriter_putlist(types, vals) ==
    lwriter_putstr([i \in DOMAIN types |->
        to_bytes(vals[i], IF types[i] = "b" THEN 0 ELSE Width(types[i]), buf.be)])

-----------------------------------------------------------------------------
Init ==
    /\ buf = Fresh /\ rd = NoReader /\ wr = NoWriter
    /\ mem_total = 0

Strs == {<<s, t>> : s \in Str, t \in Str \union {<<>>}}
Vals == {<<>>} \union {<<v>> : v \in Val} \union {<<v, v>> : v \in Val}

ValsFor(types) == [DOMAIN types -> Val]

PutNext ==
    \/ \E strs \in Strs : lbuffer_putstr(strs)
    \/ \E vals \in Vals, w \in Widths : lbuffer_put(vals, w)
    \/ \E types \in Types : \E vals \in ValsFor(types) : lbuffer_putlist(types, vals)
    \/ \E s \in Str, off \in Off, n \in Num : lbuffer_putreader(s, off, n)
    \/ \E v \in Val, n \in Num : lbuffer_fill(v, n)
    \/ lbuffer_beginlen

OverwriteNext ==
    \/ \E n \in {4, 5} : lbuffer_endlen(n)
    \/ \E off \in Off, v \in Val : lbuffer_overwrite(off, to_bytes(v, 4, buf.be))
    \/ \E off \in Off, s \in Str : lbuffer_overwrite(off, s)
    \/ \E be \in Orders : lbuffer_setbe(be)

GetNext ==
    \/ \E n \in Num : lbuffer_getline(n) \/ lbuffer_getlstr(n)
    \/ \E n \in Num, w \in Widths : lbuffer_get(n, w)
    \/ \E types \in Types : lbuffer_getlist(types)
    \/ \E n \in Num : lbuffer_pop(n) \/ lbuffer_shift(n)
    \/ lbuffer_shift_reader \/ lbuffer_rewind \/ lbuffer_reset \/ lbuffer_gc

ReaderNext ==
    \/ \E off \in Off, n \in Num : lbuffer_reader(off, n) \/ lreader_sub(off, n)
    \/ \E n \in Num, w \in Widths : lreader_get(n, w)
    \/ \E types \in Types : lreader_getlist(types)
    \/ \E n \in Num : lreader_getlstr(n) \/ lreader_skip(n)
    \/ lreader_getline

WriterNext ==
    \/ \E n \in Num : lbuffer_writer(n)
    \/ \E vals \in Vals : lwriter_putc(vals)
    \/ \E n \in Num, w \in Widths \ {1} : lwriter_put(n, w)
    \/ \E strs \in Strs : lwriter_putstr(strs)
    \/ \E types \in Types : \E vals \in ValsFor(types) : lwriter_putlist(types, vals)

Next == PutNext \/ OverwriteNext \/ GetNext \/ ReaderNext \/ WriterNext

Spec == Init /\ [][Next]_vars

-----------------------------------------------------------------------------
\* The data lies inside the block, a usable reader inside the data, a usable
\* writer's room inside the data, and stdmem() counts exactly the block.
BufTypeOK ==
    /\ buf.lgap \in Nat /\ buf.datasiz \in Nat
    /\ buf.lgap + buf.datasiz <= memsiz(buf)
    /\ mem_total = memsiz(buf)
    /\ rd.usable => /\ buf.lgap <= rd.base
                    /\ rd.base + rd.shifted + rd.left <= buf.lgap + buf.datasiz
    /\ wr.usable => /\ wr.cursor <= wr.length
                    /\ wr.offset + wr.length <= buf.datasiz

\* The buffer is a queue of bytes, and readers and writers see that queue:
\* however the data is moved within its block or to another, no operation
\* loses, repeats, reorders or alters a byte it was not asked to.  (lbuffer.c,
\* lreader.c: every operation; buffer_grow and buffer_adjust move the data.)
Q == INSTANCE ByteQueue WITH
         queue <- Content(buf), be <- buf.be,
         view <- IF rd.usable THEN Unread ELSE <<>>,
         taken <- rd.shifted,
         at <- IF rd.usable THEN rd.base + rd.shifted - buf.lgap ELSE -1,
         hole <- IF wr.usable THEN wr.offset + wr.cursor ELSE -1,
         room <- IF wr.usable THEN wr.length - wr.cursor ELSE 0
IsByteQueue == Q!Spec
=============================================================================
