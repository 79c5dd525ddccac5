------------------------ MODULE MCTrafficAccounting ------------------------
(* TrafficAccounting on small instances. *)
EXTENDS TrafficAccounting, TLC

CONSTANTS s1, s2, r1, r2, i1, i2, u1, u2

\* A session whose Stop was lost and the next one at its address, of another
\* user; one response to that address and one to an address without a session.
TwoSessions == {s1, s2}
TwoIps == {i1, i2}
TwoUsers == {u1, u2}
TwoRecords == {r1, r2}
SharedIpOf == s1 :> i1 @@ s2 :> i1
TwoUserOf == s1 :> u1 @@ s2 :> u2
TwoRecIp == r1 :> i1 @@ r2 :> i2

\* One user on line, and one response.
OneSession == {s1}
OneIp == {i1}
OneUser == {u1}
OneRecord == {r1}
OneIpOf == s1 :> i1
OneUserOf == s1 :> u1
OneRecIp == r1 :> i1

=============================================================================
