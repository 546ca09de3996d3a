------------------------------- MODULE MCData -------------------------------
(***************************************************************************)
(* A small instance of the data bindings for TLC: a Lua program that uses  *)
(* either a buffer with its readers and writers, or the functions on       *)
(* strings and numbers.  Bound: not both, as they share no state.          *)
(***************************************************************************)
EXTENDS Buffer, Codec

DataInit == Init /\ CodecInit

BufferUnused == buf = Fresh /\ rd = NoReader /\ wr = NoWriter
CodecUnused == Idle /\ NoLoopYet /\ CjsonUnused

DataNext ==
    \/ CodecUnused /\ Next /\ UNCHANGED codecvars
    \/ BufferUnused /\ CodecNext /\ UNCHANGED vars

DataSpec == DataInit /\ [][DataNext]_<<vars, codecvars>>

-----------------------------------------------------------------------------
MCStr == {<<1, 10>>}
MCTypes == {<<"c", "w">>}

\* a / % + space e-acute NUL " \ 4 1
MCEncStr == BoundedSeq({97, 47, 37, 43, 32, 233, 0, 34, 92, 52, 49}, 3)

Opt(k, S) == {<<>>} \union {k :> v : v \in S}
MCTails == {("path" :> p) @@ q @@ f : p \in {<<47>>, <<47, 64, 58>>},
               q \in Opt("query", {<<>>, <<113, 63, 47, 58>>}), f \in Opt("fragment", {<<102>>})}
MCUrlParts ==
    MCTails \union
    {s @@ u @@ h @@ p @@ t :
        s \in Opt("scheme", {<<104, 116>>}),
        u \in {<<>>, "user" :> <<117>>, ("user" :> <<117>>) @@ ("password" :> <<112, 58>>)},
        h \in {"host" :> <<104>>, "host" :> <<104, 32, 47, 64>>},
        p \in Opt("port", {80}), t \in MCTails}

MCNumbers == -17..20
MCShifts == -5..5

MCMessages ==
    (<<>> :> <<\hd41d, \h8cd9, \h8f00, \hb204, \he980, \h0998, \hecf8, \h427e>>)
    @@ (<<97, 98, 99>> :> <<\h9001, \h5098, \h3cd2, \h4fb0, \hd696, \h3f7d, \h28e1, \h7f72>>)
    @@ (<<109, 101, 115, 115, 97, 103, 101, 32, 100, 105, 103, 101, 115, 116>> :> <<\hf96b, \h697d, \h7cb7, \h938d, \h525a, \h2f31, \haaf1, \h61d0>>)
    @@ (<<97, 98, 99, 100, 101, 102, 103, 104, 105, 106, 107, 108, 109, 110, 111, 112, 113, 114, 115, 116, 117, 118, 119, 120, 121, 122>> :> <<\hc3fc, \hd3d7, \h6192, \he400, \h7dfb, \h496c, \hca67, \he13b>>)
    @@ ([i \in 1..55 |-> 97] :> <<\hef17, \h72b6, \hdff9, \ha122, \h3585, \h5295, \h4ad0, \hdf65>>)
    @@ ([i \in 1..56 |-> 97] :> <<\h3b0c, \h8ac7, \h03f8, \h28b0, \h4c6c, \h1970, \h06d1, \h7218>>)
    @@ ([i \in 1..64 |-> 97] :> <<\h0148, \h42d4, \h80b5, \h7149, \h5a4a, \h0363, \h793f, \h7367>>)
    @@ ([i \in 1..120 |-> 97] :> <<\h5f61, \hc0cc, \had4c, \hac44, \hc75f, \hf505, \he1f1, \he537>>)

a == <<"string", <<97>>>>
Scalars ==
    {<<"string", s>> : s \in {<<>>, <<97>>, <<34, 0, 10>>, <<127, 200, 31, 9, 47>>}}
    \union {<<"number", n>> : n \in {0, -7, 95, 96, 125, 994, 996, -2050}}
    \union {<<"boolean", TRUE>>, <<"boolean", FALSE>>, <<"null">>, <<"nil">>, <<"badnum">>, <<"function">>}
Some == {a, <<"number", -7>>, <<"null">>, <<"badnum">>}
Flat ==
    {<<>>} \union {<<"number", 1>> :> v : v \in Some}
    \union {(<<"number", 1>> :> v) @@ (<<"number", k>> :> a) : v \in Some, k \in {2, 3, 9}}
    \union {k :> a : k \in {a, <<"number", 0>>, <<"boolean", TRUE>>}}
    \union {(a :> v) @@ (<<"string", <<>>>> :> v) : v \in Some}
Tables == {<<"table", t>> : t \in Flat}
MCJsonValues ==
    Scalars \union Tables
    \union {<<"table", k :> v>> : k \in {a, <<"number", 1>>}, v \in Tables}
    \union {<<"table", (<<"number", 1>> :> v) @@ (<<"number", 2>> :> v)>> : v \in Tables}

\* [ ] { } , : " 1
MCJsonTexts ==
    BoundedSeq({91, 93, 123, 125, 44, 58, 34, 49}, 4) \union
    {<<34, 92, 117, 48, 48, 52, 49, 34>>,
     <<34, 92, 117, 48, 48, 101, 57, 34>>,
     <<34, 92, 117, 50, 48, 65, 67, 34>>,
     <<34, 92, 117, 100, 56, 51, 100, 92, 117, 100, 101, 48, 48, 34>>,
     <<34, 92, 117, 100, 56, 51, 100, 34>>,
     <<34, 92, 117, 100, 56, 51, 100, 92, 117, 48, 48, 52, 49, 34>>,
     <<34, 92, 117, 100, 99, 48, 48, 34>>,
     <<34, 92, 117, 48, 48, 103, 48, 34>>,
     <<34, 92, 47, 92, 110, 92, 113, 34>>,
     <<34, 92, 34, 92, 92, 34>>,
     <<116, 114, 117, 101>>,
     <<91, 116, 114, 117, 101, 44, 102, 97, 108, 115, 101, 44, 110, 117, 108, 108, 93>>,
     <<110, 117, 108>>,
     <<45, 105, 110, 102>>,
     <<78, 97, 78>>,
     <<43, 49>>,
     <<48, 120, 49, 102>>,
     <<48, 49>>,
     <<49, 50>>,
     <<49, 101, 43, 49>>,
     <<49, 46, 53, 101, 43, 49>>,
     <<45>>,
     <<45, 55>>,
     <<32, 123, 32, 34, 97, 34, 32, 58, 32, 91, 32, 49, 32, 44, 32, 123, 125, 32, 93, 32, 125, 32>>,
     <<123, 34, 97, 34, 58, 49, 44, 34, 97, 34, 58, 50, 125>>,
     <<123, 34, 97, 34, 58, 49, 44, 125>>,
     <<91, 49, 44, 93>>,
     <<91, 91, 91, 49, 93, 93, 93>>,
     <<49, 50, 0, 32, 51>>,
     <<0, 97>>,
     <<34, 97, 0, 34>>}

\* What lies behind may end the text at once, go on with it, or close a string.
MCBehind == {<<>>, <<0, 49>>, <<93>>, <<97, 97, 34>>}

MCConfigs ==
    {[f |-> "sparse", convert |-> TRUE, ratio |-> 2, safe |-> 1],
     [f |-> "sparse", convert |-> TRUE, ratio |-> -1, safe |-> 1],
     [f |-> "depth", depth |-> 1], [f |-> "depth", depth |-> 0],
     [f |-> "precision", precision |-> 2], [f |-> "precision", precision |-> 15],
     [f |-> "keep", keep |-> FALSE], [f |-> "refuse", enc |-> FALSE, dec |-> TRUE]}
\* a b ,
MCTokStr == BoundedSeq({97, 98, 44}, 3) \union
    {<<97, 44, 44, 98>>, <<44, 97, 44, 98>>, <<97, 44, 98, 44>>, <<44, 44, 97, 97>>}
MCRemains == {<<>>, <<98, 44, 97>>}
=============================================================================
