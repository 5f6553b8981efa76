------------------------------ MODULE MCMessages ------------------------------
EXTENDS Messages

MCPeer == [ip |-> 1, port |-> 5062]
MCAddresses == {MCPeer, [ip |-> 1, port |-> 5061]}

With(version, type, id, window, seqnum, chunk) ==
    [Blank EXCEPT !.version = version, !.type = type, !.clientID = id, !.window = window,
                  !.seqnum = seqnum, !.chunk = chunk]

\* Every field at its ends and at the borders of its bytes.
MCSettings ==
    {[With(2, 1, 0, 256, 2147483647, 16777215) EXCEPT !.hello = TRUE, !.first = TRUE],
     [With(1, 5, 255, 65535, 65536, 0) EXCEPT !.first = TRUE, !.last = TRUE],
     [With(2, 5, 3, 255, 0, 2147483647) EXCEPT !.quit = TRUE]}

MCPayloads == {<<>>, <<255, 0>>}
=============================================================================
