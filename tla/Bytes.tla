------------------------------- MODULE Bytes -------------------------------
(***************************************************************************)
(* What std/lreader.c, std/lbuffer.c and the macros of std/lstdimpl.h do   *)
(* with a run of bytes: integers of one, two and four bytes in either      *)
(* order, lists of them, lines, and the search for a form-data boundary.   *)
(* A run of bytes is a sequence of 0 .. 255; Junk stands for a byte nobody *)
(* has written.                                                            *)
(***************************************************************************)
EXTENDS Integers, Sequences

NUL == 0
LF == 10
CR == 13

Least(a, b) == IF a < b THEN a ELSE b
Drop(d, n) == SubSeq(d, n + 1, Len(d))
Take(d, n) == SubSeq(d, 1, n)

-----------------------------------------------------------------------------
\* The lowest n bytes of an integer, most significant first or last.  The
\* remainder of a negative integer is its two's complement.
to_bytes(v, n, be) ==
    [i \in 1..n |-> (v \div 256 ^ (IF be THEN n - i ELSE i - 1)) % 256]

from_bytes(d, be) ==
    LET n == Len(d)
        part[i \in 0..n] ==
            IF i = 0 THEN 0
            ELSE part[i - 1] + d[i] * 256 ^ (IF be THEN n - i ELSE i - 1)
    IN part[n]

\* The width of each letter of a getlist or putlist; other letters are skipped.
Width(c) == CASE c \in {"c", "b"} -> 1 [] c = "w" -> 2 [] c \in {"i", "u"} -> 4
              [] OTHER -> 0

\* Where pieces of these widths end, one behind the other.
ends_at(widths) ==
    LET end[i \in 0..Len(widths)] == IF i = 0 THEN 0 ELSE end[i - 1] + widths[i]
    IN end

total(widths) == ends_at(widths)[Len(widths)]

\* How many of them fit into n bytes, up to the first that does not.
fit(widths, n) ==
    CHOOSE k \in 0..Len(widths) :
        /\ ends_at(widths)[k] <= n
        /\ k = Len(widths) \/ ends_at(widths)[k + 1] > n

\* The widths a list of letters reads from d: it stops at the first letter
\* that finds too little.
list_widths(types, d) ==
    LET widths == [i \in DOMAIN types |-> Width(types[i])]
    IN Take(widths, fit(widths, Len(d)))

\* The integers of these widths at the front of d.
integers(d, widths, be) ==
    [i \in DOMAIN widths |->
        from_bytes(SubSeq(d, ends_at(widths)[i - 1] + 1, ends_at(widths)[i]), be)]

\* What getc, getw and getu read: n integers of one width, or as many as fit.
same_width(d, n, w) == [i \in 1..Least(n, Len(d) \div w) |-> w]

-----------------------------------------------------------------------------
\* reader_getline.  The end of the line is overwritten with zeros, and zeros
\* are stripped from what is returned; at most two of them.
NoLine == [line |-> <<>>, eaten |-> 0]

NextLine(d) ==
    IF d = <<>> \/ d[1] = NUL \/ \A i \in DOMAIN d : d[i] # LF
    THEN NoLine
    ELSE LET lf == CHOOSE i \in DOMAIN d :
                      d[i] = LF /\ \A j \in 1..(i - 1) : d[j] # LF
             strip == lf > 1 /\ d[lf - 1] \in {CR, NUL}
         IN [line |-> Take(d, IF strip THEN lf - 2 ELSE lf - 1), eaten |-> lf]

\* The bytes of the line's end are zero afterwards, in the memory itself.
after_line(d) ==
    LET n == NextLine(d).eaten
    IN [i \in DOMAIN d |->
            IF i = n \/ (i = n - 1 /\ d[i] = CR) THEN NUL ELSE d[i]]

-----------------------------------------------------------------------------
\* lreader_find_formdata_content_boundary: where "\r\n" and the boundary start
\* (-1 when they do not), and how many bytes at the end may be their
\* beginning.  The search goes on two bytes behind a "\r" that did not fit.
find_boundary(d, boundary) ==
    LET n == Len(d)
        full == <<CR, LF>> \o boundary
        next_cr(p) == {q \in p..n : d[q] = CR}
        search[p \in 1..(n + 2)] ==
            IF p > n \/ next_cr(p) = {} THEN <<-1, 0>>
            ELSE LET q == CHOOSE q \in next_cr(p) :
                              \A r \in next_cr(p) : q <= r
                     len == n - q + 1
                 IN CASE len = 1 -> <<-1, 1>>
                      [] len > 1 /\ d[q + 1] # LF -> search[q + 2]
                      [] len > 1 /\ d[q + 1] = LF /\ len >= Len(full) ->
                            IF SubSeq(d, q, q + Len(full) - 1) = full
                            THEN <<q - 1, 0>> ELSE search[q + 2]
                      [] OTHER ->
                            IF SubSeq(d, q, n) = Take(full, len)
                            THEN <<-1, len>> ELSE search[q + 2]
    IN search[1]
=============================================================================
