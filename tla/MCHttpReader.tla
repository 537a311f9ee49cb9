----------------------------- MODULE MCHttpReader -----------------------------
(* Instances of HttpReader.                                                    *)
EXTENDS HttpReader

MCLengths ==
    [l \in {"len0", "len1", "len2", "len4"} |->
        CASE l = "len0" -> 0 [] l = "len1" -> 1 [] l = "len2" -> 2 [] l = "len4" -> 4]
MCSizes == [s \in {"0", "1", "2"} |-> CASE s = "0" -> 0 [] s = "1" -> 1 [] s = "2" -> 2]

Chunk(size, data) == [size |-> size, data |-> data]

Plain(ls, data) == [lines |-> ls, chunks |-> <<Chunk("0", data)>>]

Chunked(ls, cs) == [lines |-> <<"line">> \o ls \o <<"chunked">>, chunks |-> cs]

LastChunk == Chunk("0", <<>>)

\* Every framing, bodies that look like delimiters, and every way to be refused.
MCMessages ==
    {Plain(<<"line">>, <<>>),
     Plain(<<"line", "len0">>, <<>>),
     Plain(<<"line", "len4">>, <<"r", "n", "r", "n">>),
     Plain(<<"line", "gzip", "len1">>, <<"z">>),
     Plain(<<"line", "gzip", "len2">>, <<"z", "y">>),
     Chunked(<<>>, <<LastChunk>>),
     Chunked(<<>>, <<Chunk("2", <<"r", "n">>), Chunk("1", <<"y">>), LastChunk>>),
     Chunked(<<"gzip">>, <<Chunk("1", <<"z">>), Chunk("1", <<"z">>), LastChunk>>),
     Plain(<<"", "len1">>, <<"y">>),
     Plain(<<"word">>, <<>>),
     Plain(<<"status?", "len1">>, <<"y">>),
     Plain(<<"line", "len?">>, <<>>),
     Chunked(<<>>, <<Chunk("1", <<"y">>), Chunk("?", <<>>), LastChunk>>)}

\* The hypothesis of the theorem on WholeAndInOrder.
ASSUME MCMessagesFramed == FramedMessages
================================================================================
