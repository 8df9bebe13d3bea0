------------------------------- MODULE MCWire -------------------------------
(* Messages of every type, with lengths around the scaled limits, for TLC. *)
EXTENDS Wire

Zeros(n) == [i \in 1 .. n |-> 0]
Id == <<1>>

(* Vectors that look like a length followed by a shorter vector. *)
Data == {<<>>, <<2>>, Zeros(4), <<0, 0, 0, 4>>}

MCMessages ==
    {[type |-> 1, field |-> [version |-> 1, address |-> Id, port |-> p,
                             nick |-> n, key_fingerprint |-> Id]] :
        p \in {1, Base^2 - 1}, n \in {<<>>, <<3>>, Zeros(Base - 1), Zeros(Base)}}
    \cup
    {[type |-> 2, field |-> [version |-> 1]]}
    \cup
    {[type |-> 3, field |-> [version |-> 1, key_data |-> k]] :
        k \in {<<>>, <<4, 0>>, Zeros(Base^2 - 1), Zeros(Base^2)}}
    \cup
    {[type |-> 4, field |-> [version |-> 1, uuid |-> Id, conv_uuid |-> Id,
                             conv_type |-> 1, prev_hash |-> Id, timestamp |-> t,
                             source |-> Id, destination |-> Id, headers |-> h,
                             data |-> d, signature |-> s]] :
        t \in {1, Base^3}, h \in Data, d \in Data, s \in {<<5>>}}
    \cup
    {[type |-> 5, field |-> [version |-> 1, uuid |-> Id, message_hash |-> Id,
                             acknowledger |-> Id, signature |-> s]] :
        s \in {<<>>, <<5>>}}
=============================================================================
