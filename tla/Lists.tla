--------------------------------- MODULE Lists ---------------------------------
(* Sequences seen as what they hold: queues of sockets, and _refused.          *)
EXTENDS Integers, Sequences

Elems(s) == {s[i] : i \in 1 .. Len(s)}
Distinct(s) == \A i, k \in 1 .. Len(s) : s[i] = s[k] => i = k
=============================================================================
