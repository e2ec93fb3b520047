----------------------------- MODULE ByteStream -----------------------------
\* What a pipe promises: bytes come out in the order they went in, none lost,
\* none invented, at most Capacity of them under way.
EXTENDS Naturals, Sequences

CONSTANTS Bytes, Capacity

VARIABLE stream    \* the bytes under way

Init == stream = <<>>

Send == \E k \in 1..Capacity : \E s \in [1..k -> Bytes] :
          /\ Len(stream) + k <= Capacity
          /\ stream' = stream \o s

Receive == \E k \in 1..Len(stream) : stream' = SubSeq(stream, k + 1, Len(stream))

\* Both ends are closed: what was not read is gone.
Close == stream' = <<>>

Next == Send \/ Receive \/ Close

Spec == Init /\ [][Next]_stream
=============================================================================
