----------------------------- MODULE MCWsFrame ------------------------------
(* The lengths at which the form of a header changes, and their neighbours.*)
EXTENDS WsFrame

Boundaries == {0, 1, 125, 126, 127, 65535, 65536, 65537}
AroundBoundaries == {0, 1, 124, 125, 126, 127, 128, 255, 256, 65534, 65535,
                     65536, 65537, 131071, 131072, 131073}

(* The bytes of headers, and one byte of every kind after them.            *)
HeaderBytes == {1, 2, 5, 6, 7, 8, 13, 14}
=============================================================================
