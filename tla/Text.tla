-------------------------------- MODULE Text --------------------------------
(***************************************************************************)
(* std/lstring.c: tokenize and eachtok, over the C library's strtok, and   *)
(* addslashes.  strtok remembers one position, for the whole program: the  *)
(* loops of all tasks share it, and tokenize moves it, too.                *)
(***************************************************************************)
EXTENDS Bytes

LOCAL INSTANCE SequencesExt

CONSTANTS
    Loop,       \* the loops "for tok in str:eachtok(delim)"
    Delim,      \* the bytes that separate tokens
    TokStr,     \* the strings that are taken apart
    Remains     \* what memory that is no longer a string's may hold

VARIABLES
    save,       \* strtok: of which loop the string is, and what is left of it
    loop        \* each loop: its string, whether it is new; and as a history
                \* whether strtok was all its own since, and what it then got

textvars == <<save, loop>>

Nil == <<>>
NoSave == [of |-> Nil, left |-> <<>>]
\* The string was a loop's, and is freed, or tokenize's, on a stack frame that
\* is left.
Gone == <<"gone">>
Closed == [open |-> FALSE, src |-> <<>>, first |-> FALSE, own |-> TRUE, got |-> <<>>]

\* strtok on the rest of a string: the token (Nil: there is none) and what is
\* left behind the separator that ends it.
strtok(s) ==
    LET starts == {i \in DOMAIN s : s[i] \notin Delim}
        b == CHOOSE i \in starts : \A j \in starts : i <= j
        ends == {i \in b..Len(s) : s[i] \in Delim}
        e == IF ends = {} THEN Len(s) + 1 ELSE CHOOSE i \in ends : \A j \in ends : i <= j
    IN IF starts = {} THEN [tok |-> Nil, left |-> <<>>]
       ELSE [tok |-> SubSeq(s, b, e - 1), left |-> Drop(s, e)]

\* tokenize asks for all of them at once: what it returns, and what it does to
\* strtok's position and so to every loop that has begun.
tokenize(s) ==
    LET toks[n \in 0..Len(s)] ==
            IF n = 0 THEN [left |-> s, got |-> <<>>]
            ELSE LET prev == toks[n - 1]
                     next == strtok(prev.left)
                 IN [left |-> next.left,
                     got |-> IF next.tok = Nil THEN prev.got ELSE Append(prev.got, next.tok)]
    IN toks[Len(s)].got

Open == {l \in Loop : loop[l].open}

\* strtok is called by other than these loops: what they get after that is
\* not recorded.
disturbed(k) == [loop[k] EXCEPT !.own = FALSE, !.got = <<>>]
disturb(others) == [k \in Loop |-> IF k \in others /\ ~loop[k].first THEN disturbed(k) ELSE loop[k]]

lstring_tokenize ==
    /\ save' = [of |-> Gone, left |-> <<>>]
    /\ loop' = disturb(Open)

lstring_eachtok(l, src) ==
    /\ ~loop[l].open
    /\ loop' = [k \in Loop |-> IF k = l THEN [Closed EXCEPT !.open = TRUE, !.src = src, !.first = TRUE]
                               ELSE IF loop[k].open THEN loop[k] ELSE Closed]
    /\ UNCHANGED save

\* The next token, or the end of the loop, which frees the loop's own string.
\* What strtok finds where a string is gone is arbitrary.
next_from_start(l) == {[of |-> l, left |-> loop[l].src]}

next_from(l) ==
    IF loop[l].first THEN {[of |-> l, left |-> loop[l].src]}
    ELSE IF save.of = Gone THEN {[of |-> Gone, left |-> s] : s \in Remains}
    ELSE {save}

l_eachtok_next(l) ==
    /\ loop[l].open
    /\ \E from \in next_from(l) :
          LET next == strtok(from.left)
          IN /\ save' = [of |-> IF next.tok = Nil /\ from.of = l THEN Gone ELSE from.of,
                          left |-> next.left]
             /\ loop' = [disturb(Open \ {l}) EXCEPT
                            ![l].first = FALSE, ![l].open = next.tok # Nil,
                            ![l].got = IF next.tok = Nil \/ ~loop[l].own THEN @
                                       ELSE Append(@, next.tok)]

\* A loop that is left early keeps its string for ever.
leave_loop(l) ==
    /\ loop[l].open
    /\ loop' = [loop EXCEPT ![l] = Closed]
    /\ UNCHANGED save

TextInit ==
    /\ save = NoSave
    /\ loop = [l \in Loop |-> Closed]

-----------------------------------------------------------------------------
\* addslashes: what stands for a byte.
slashed(ch) ==
    CASE ch \in {34, 39, 92} -> <<92, ch>>
      [] ch = NUL -> <<92, 48>>
      [] ch = CR -> <<92, 114>>
      [] ch = LF -> <<92, 110>>
      [] OTHER -> <<ch>>

addslashes(src) == FlattenSeq([i \in DOMAIN src |-> slashed(src[i])])
=============================================================================
