--------------------------- MODULE MCRequestParser ---------------------------
(***************************************************************************)
(* Instances of RequestParser for TLC.                                     *)
(***************************************************************************)
EXTENDS RequestParser

Request(ls, c) == [lines |-> ls, content |-> c]

Short == Request(<<Post, Size(0)>>, <<>>)
Long  == Request(<<Post, Size(2)>>, <<Byte(1), Byte(2)>>)

\* The content may look like a header.
Tricky == Request(<<Post, Size(4)>>, http_end)

Bad == {Request(<<Post, Junk, Size(0)>>, <<>>),
        Request(<<Junk, Size(0)>>, <<>>),
        Request(<<Post, NoSize>>, <<>>),
        Request(<<Post, Other>>, <<>>)}

\* The last of several Content-Lengths counts.
Twice == Request(<<Post, Size(1), Size(0)>>, <<>>)

Good == {Short, Long, Tricky, Twice}

ValidScripts == {<<a, b>> : a \in Good, b \in Good}
AllScripts   == {<<a, b>> : a \in Good \cup Bad, b \in Good \cup Bad}

\* m_buffer may be empty, or hold what was freed by another connection.
Buffers ==
    {[i \in 1 .. BufSize |-> Nul],
     [i \in 1 .. BufSize |-> IF i % 2 = 1 THEN CR ELSE LF]}
Zeroed == {[i \in 1 .. BufSize |-> Nul]}

UnsetLengths == {0, 1}
=============================================================================
